---- MODULE Spec2Model ----
(***************************************************************************)
(* PCEval: converters between the Wokwi diagram format and the            *)
(* Standardized Hardware Description Format (SHDF), and the SHDF           *)
(* validator.  Python strings are sequences of one-character strings, so  *)
(* that split, lower, replace and the digit/letter filters are computed as *)
(* the code computes them.  A Python dict is an insertion-ordered sequence *)
(* of <<key, value>> pairs; a JSON object with optional keys is a record   *)
(* whose DOMAIN holds the keys that are present.                           *)
(***************************************************************************)
EXTENDS Integers, Sequences, FiniteSets, TLC

VARIABLES
    TYPE_MAPPINGS,          \* type_mappings.py: {wokwi type: shdf type}
    REVERSE_TYPE_MAPPINGS,  \* type_mappings.py: {shdf type: wokwi type}
    SHDF_TYPE_ALIASES,      \* type_mappings.py: {alias: shdf type}
    PIN_MAPPINGS,           \* pin_mappings.py: {shdf type: {wokwi pin: shdf pin}}
    REVERSE_PIN_MAPPINGS,   \* pin_mappings.py: {shdf type: {shdf pin: wokwi pin}}
    PIN_NAME_ALIASES,       \* pin_mappings.py: {shdf type: {alias: shdf pin}}
    COMPONENT_TYPE_ALIASES, \* pin_mappings.py: {alias: shdf type}
    standard_diagram,       \* the SHDF document object the caller holds (or NoDoc)
    wokwi_diagram,          \* the Wokwi document object the caller holds (or NoDoc)
    calls,                  \* log of the calls made so far: function, arguments, outcome
    point,                  \* argument of the single-endpoint / single-pin calls (or NoArg)
    metric_diagram,         \* hardware_metrics.py: the document under evaluation (or NoDoc)
    metric_reference,       \* hardware_metrics.py: the reference document (or NoDoc)
    metric_project_path     \* hardware_metrics.py: the project path (or None)

tables ==
    <<TYPE_MAPPINGS, REVERSE_TYPE_MAPPINGS, SHDF_TYPE_ALIASES, PIN_MAPPINGS,
      REVERSE_PIN_MAPPINGS, PIN_NAME_ALIASES, COMPONENT_TYPE_ALIASES>>

vars ==
    <<TYPE_MAPPINGS, REVERSE_TYPE_MAPPINGS, SHDF_TYPE_ALIASES, PIN_MAPPINGS,
      REVERSE_PIN_MAPPINGS, PIN_NAME_ALIASES, COMPONENT_TYPE_ALIASES,
      standard_diagram, wokwi_diagram, calls, point, metric_diagram, metric_reference,
      metric_project_path>>

----------------------------------------------------------------------------
(* Python str                                                              *)

\* Python None where a string is expected
None ==
    <<"None">>

Digits ==
    {"0", "1", "2", "3", "4", "5", "6", "7", "8", "9"}

LowerLetters ==
    <<"a", "b", "c", "d", "e", "f", "g", "h", "i", "j", "k", "l", "m",
      "n", "o", "p", "q", "r", "s", "t", "u", "v", "w", "x", "y", "z">>

UpperLetters ==
    <<"A", "B", "C", "D", "E", "F", "G", "H", "I", "J", "K", "L", "M",
      "N", "O", "P", "Q", "R", "S", "T", "U", "V", "W", "X", "Y", "Z">>

\* c.isdigit() of one character
IsDigitChar(c) ==
    c \in Digits

\* c.isalpha() of one character
IsAlphaChar(c) ==
    \E i \in 1..26 : LowerLetters[i] = c \/ UpperLetters[i] = c

\* c.lower() of one character
LowerChar(c) ==
    IF \E i \in 1..26 : UpperLetters[i] = c
    THEN LowerLetters[CHOOSE i \in 1..26 : UpperLetters[i] = c]
    ELSE IF c = "Omega" THEN "omega"
    ELSE c

\* s.lower()
lower(s) ==
    [i \in 1..Len(s) |-> LowerChar(s[i])]

\* s.isdigit(): non-empty and digits only
isdigit(s) ==
    Len(s) > 0 /\ \A i \in 1..Len(s) : IsDigitChar(s[i])

\* ''.join(c for c in s if c.isdigit())
digits_of(s) ==
    SelectSeq(s, IsDigitChar)

\* ''.join(c for c in s if c.isalpha())
alphas_of(s) ==
    SelectSeq(s, IsAlphaChar)

\* sub occurs in s at index i
StartsAt(s, sub, i) ==
    /\ i >= 1
    /\ i + Len(sub) - 1 <= Len(s)
    /\ SubSeq(s, i, i + Len(sub) - 1) = sub

\* sub in s
Contains(s, sub) ==
    \E i \in 1..(Len(s) + 1) : StartsAt(s, sub, i)

\* s.find(sub) + 1: index of the first occurrence, 0 when there is none
Find(s, sub) ==
    IF Contains(s, sub)
    THEN CHOOSE i \in 1..(Len(s) + 1) :
            StartsAt(s, sub, i) /\ \A j \in 1..(i - 1) : ~StartsAt(s, sub, j)
    ELSE 0

\* s.startswith(pre), s.endswith(suf)
startswith(s, pre) ==
    StartsAt(s, pre, 1)

endswith(s, suf) ==
    StartsAt(s, suf, Len(s) - Len(suf) + 1)

\* s.split(sep, 1)
split1(s, sep) ==
    LET i == Find(s, sep)
    IN  IF i = 0 THEN <<s>>
        ELSE <<SubSeq(s, 1, i - 1), SubSeq(s, i + Len(sep), Len(s))>>

\* s.split(sep)
RECURSIVE split(_, _)
split(s, sep) ==
    LET i == Find(s, sep)
    IN  IF i = 0 THEN <<s>>
        ELSE <<SubSeq(s, 1, i - 1)>> \o split(SubSeq(s, i + Len(sep), Len(s)), sep)

\* s.replace(old, new), old non-empty
RECURSIVE replace(_, _, _)
replace(s, old, new) ==
    LET i == Find(s, old)
    IN  IF i = 0 THEN s
        ELSE SubSeq(s, 1, i - 1) \o new
                \o replace(SubSeq(s, i + Len(old), Len(s)), old, new)

\* s.strip() for the space character
RECURSIVE strip(_)
strip(s) ==
    IF Len(s) > 0 /\ s[1] = " " THEN strip(Tail(s))
    ELSE IF Len(s) > 0 /\ s[Len(s)] = " " THEN strip(SubSeq(s, 1, Len(s) - 1))
    ELSE s

\* length of the longest suffix of digits: the group of re.search(r'(\d+)$', s)
RECURSIVE TrailingDigitCount(_)
TrailingDigitCount(s) ==
    IF Len(s) > 0 /\ IsDigitChar(s[Len(s)])
    THEN 1 + TrailingDigitCount(SubSeq(s, 1, Len(s) - 1))
    ELSE 0

\* re.search(r'(\d+)$', s).group(1), <<>> when there is no match
trailing_number(s) ==
    SubSeq(s, Len(s) - TrailingDigitCount(s) + 1, Len(s))

\* re.sub(r'\d+$', '', s)
strip_trailing_number(s) ==
    SubSeq(s, 1, Len(s) - TrailingDigitCount(s))

\* int(s) for a string of digits
RECURSIVE int(_)
int(s) ==
    IF Len(s) = 0 THEN 0
    ELSE 10 * int(SubSeq(s, 1, Len(s) - 1))
            + (CHOOSE d \in 0..9 : <<"0", "1", "2", "3", "4", "5", "6", "7", "8", "9">>[d + 1] = s[Len(s)])

\* str(n) for a natural number
RECURSIVE str(_)
str(n) ==
    IF n < 10 THEN <<(<<"0", "1", "2", "3", "4", "5", "6", "7", "8", "9">>)[n + 1]>>
    ELSE str(n \div 10) \o str(n % 10)

----------------------------------------------------------------------------
(* Python dict, as an insertion-ordered sequence of <<key, value>>         *)

\* k in d
HasKey(d, k) ==
    \E i \in 1..Len(d) : d[i][1] = k

\* d[k], for k in d
Get(d, k) ==
    d[CHOOSE i \in 1..Len(d) : d[i][1] = k][2]

\* d[k] = v
Put(d, k, v) ==
    IF HasKey(d, k)
    THEN [i \in 1..Len(d) |-> IF d[i][1] = k THEN <<k, v>> ELSE d[i]]
    ELSE Append(d, <<k, v>>)

\* d.values()
Values(d) ==
    {d[i][2] : i \in 1..Len(d)}

\* d.keys()
Keys(d) ==
    {d[i][1] : i \in 1..Len(d)}

\* the elements of a sequence
Range(s) ==
    {s[i] : i \in 1..Len(s)}

----------------------------------------------------------------------------
(* String literals of the source                                           *)

s_breadboard ==
    <<"b", "r", "e", "a", "d", "b", "o", "a", "r", "d">>

s_wokwi_prefix ==
    <<"w", "o", "k", "w", "i", "-">>

s_wokwi_breadboard ==
    <<"w", "o", "k", "w", "i", "-", "b", "r", "e", "a", "d", "b", "o", "a", "r", "d">>

s_wokwi_arduino_uno ==
    <<"w", "o", "k", "w", "i", "-", "a", "r", "d", "u", "i", "n", "o", "-", "u", "n", "o">>

s_wokwi_resistor ==
    <<"w", "o", "k", "w", "i", "-", "r", "e", "s", "i", "s", "t", "o", "r">>

s_wokwi_led ==
    <<"w", "o", "k", "w", "i", "-", "l", "e", "d">>

s_wokwi_pushbutton ==
    <<"w", "o", "k", "w", "i", "-", "p", "u", "s", "h", "b", "u", "t", "t", "o", "n">>

s_wokwi_7segment ==
    <<"w", "o", "k", "w", "i", "-", "7", "s", "e", "g", "m", "e", "n", "t">>

s_4digit_wokwi_7segment ==
    <<"4", "-", "d", "i", "g", "i", "t", " ", "w", "o", "k", "w", "i", "-", "7", "s", "e", "g", "m", "e", "n", "t">>

s_4digit_7segment_display ==
    <<"4", "-", "d", "i", "g", "i", "t", " ", "7", "-", "s", "e", "g", "m", "e", "n", "t", " ", "d", "i", "s", "p", "l", "a", "y">>

s_7segment_display ==
    <<"7", "-", "s", "e", "g", "m", "e", "n", "t", " ", "d", "i", "s", "p", "l", "a", "y">>

s_arduino_uno ==
    <<"a", "r", "d", "u", "i", "n", "o", " ", "u", "n", "o">>

s_resistor ==
    <<"r", "e", "s", "i", "s", "t", "o", "r">>

s_pin ==
    <<"p", "i", "n">>

s_ohm ==
    <<"o", "h", "m">>

s_space_ohm ==
    <<" ", "o", "h", "m">>

s_000 ==
    <<"0", "0", "0">>

s_abcde ==
    <<"a", "b", "c", "d", "e">>

s_gnd ==
    <<"g", "n", "d">>

s_5v ==
    <<"5", "v">>

s_3_3v ==
    <<"3", ".", "3", "v">>

s_anode ==
    <<"a", "n", "o", "d", "e">>

s_cathode ==
    <<"c", "a", "t", "h", "o", "d", "e">>

s_4 ==
    <<"4">>

\* the one-character string "Ω" (Greek capital omega)
s_omega ==
    <<"Omega">>

----------------------------------------------------------------------------
(* The catalog source document module_info.json: a list of records with    *)
(* wokwi_type, shdf_type, shdf_type_aliases and pins (pin_name,            *)
(* description, pin_aliases).                                              *)

ArduinoUnoInfo ==
    [wokwi_type |-> <<"w", "o", "k", "w", "i", "-", "a", "r", "d", "u", "i", "n", "o", "-", "u", "n", "o">>,
     shdf_type |-> <<"A", "r", "d", "u", "i", "n", "o", " ", "U", "n", "o">>,
     shdf_type_aliases |-> <<<<"a", "r", "d", "u", "i", "n", "o">>, <<"u", "n", "o">>>>,
     pins |-> <<[pin_name |-> <<"1", "3">>, description |-> <<"d">>, pin_aliases |-> <<>>],
               [pin_name |-> <<"G", "N", "D", ".", "1">>, description |-> <<"d">>, pin_aliases |-> <<<<"g", "n", "d">>>>],
               [pin_name |-> <<"A", "0">>, description |-> <<"d">>, pin_aliases |-> <<>>]>>]

LedInfo ==
    [wokwi_type |-> <<"w", "o", "k", "w", "i", "-", "l", "e", "d">>,
     shdf_type |-> <<"L", "E", "D">>,
     shdf_type_aliases |-> <<>>,
     pins |-> <<[pin_name |-> <<"A">>, description |-> <<"d">>, pin_aliases |-> <<<<"a", "n", "o", "d", "e">>>>],
               [pin_name |-> <<"C">>, description |-> <<"d">>, pin_aliases |-> <<<<"c", "a", "t", "h", "o", "d", "e">>>>]>>]

ResistorInfo ==
    [wokwi_type |-> <<"w", "o", "k", "w", "i", "-", "r", "e", "s", "i", "s", "t", "o", "r">>,
     shdf_type |-> <<"R", "e", "s", "i", "s", "t", "o", "r">>,
     shdf_type_aliases |-> <<<<"r", "e", "s">>>>,
     pins |-> <<[pin_name |-> <<"1">>, description |-> <<"d">>, pin_aliases |-> <<>>],
               [pin_name |-> <<"2">>, description |-> <<"d">>, pin_aliases |-> <<>>]>>]

ButtonInfo ==
    [wokwi_type |-> <<"w", "o", "k", "w", "i", "-", "p", "u", "s", "h", "b", "u", "t", "t", "o", "n">>,
     shdf_type |-> <<"B", "u", "t", "t", "o", "n">>,
     shdf_type_aliases |-> <<>>,
     pins |-> <<[pin_name |-> <<"1", ".", "l">>, description |-> <<"d">>, pin_aliases |-> <<>>]>>]

BreadboardInfo ==
    [wokwi_type |-> <<"w", "o", "k", "w", "i", "-", "b", "r", "e", "a", "d", "b", "o", "a", "r", "d">>,
     shdf_type |-> <<"B", "r", "e", "a", "d", "b", "o", "a", "r", "d">>,
     shdf_type_aliases |-> <<>>,
     pins |-> <<>>]

\* the records json.load returns for module_info.json
ModuleInfo ==
    <<ArduinoUnoInfo, LedInfo, ResistorInfo, ButtonInfo, BreadboardInfo>>

\* type_mappings.load_module_info: {wokwi_type: record}
RECURSIVE type_load_module_info(_)
type_load_module_info(module_info) ==
    IF module_info = <<>> THEN <<>>
    ELSE LET n == Len(module_info)
             component == module_info[n]
             component_dict == type_load_module_info(SubSeq(module_info, 1, n - 1))
         IN  IF component.wokwi_type /= <<>>
             THEN Put(component_dict, component.wokwi_type, component)
             ELSE component_dict

\* pin_mappings.load_module_info: {lower-cased shdf_type: record}
RECURSIVE pin_load_module_info(_)
pin_load_module_info(module_info) ==
    IF module_info = <<>> THEN <<>>
    ELSE LET n == Len(module_info)
             component == module_info[n]
             component_dict == pin_load_module_info(SubSeq(module_info, 1, n - 1))
         IN  IF component.wokwi_type /= <<>>
             THEN Put(component_dict, lower(component.shdf_type), component)
             ELSE component_dict

\* for alias in aliases: d[alias.lower()] = shdf_component_type
RECURSIVE PutAliases(_, _, _)
PutAliases(d, aliases, target) ==
    IF aliases = <<>> THEN d
    ELSE LET n == Len(aliases)
         IN  Put(PutAliases(d, SubSeq(aliases, 1, n - 1), target),
                 lower(aliases[n]), target)

\* TYPE_MAPPINGS after the loop of update_type_mappings_from_module_info
RECURSIVE BuildTypeMappings(_)
BuildTypeMappings(component_info) ==
    IF component_info = <<>> THEN <<>>
    ELSE LET n == Len(component_info)
         IN  Put(BuildTypeMappings(SubSeq(component_info, 1, n - 1)),
                 component_info[n][1], lower(component_info[n][2].shdf_type))

\* SHDF_TYPE_ALIASES after the loop of update_type_mappings_from_module_info
RECURSIVE BuildShdfTypeAliases(_)
BuildShdfTypeAliases(component_info) ==
    IF component_info = <<>> THEN <<>>
    ELSE LET n == Len(component_info)
             component == component_info[n][2]
             shdf_component_type == lower(component.shdf_type)
             before == BuildShdfTypeAliases(SubSeq(component_info, 1, n - 1))
         IN  PutAliases(Put(before, shdf_component_type, shdf_component_type),
                        component.shdf_type_aliases, shdf_component_type)

\* {shdf: wokwi for wokwi, shdf in TYPE_MAPPINGS.items()}
RECURSIVE BuildReverseTypeMappings(_)
BuildReverseTypeMappings(type_mappings) ==
    IF type_mappings = <<>> THEN <<>>
    ELSE LET n == Len(type_mappings)
         IN  Put(BuildReverseTypeMappings(SubSeq(type_mappings, 1, n - 1)),
                 type_mappings[n][2], type_mappings[n][1])

\* COMPONENT_TYPE_ALIASES after the loop of update_pin_mappings_from_module_info
RECURSIVE BuildComponentTypeAliases(_)
BuildComponentTypeAliases(component_info) ==
    IF component_info = <<>> THEN <<>>
    ELSE LET n == Len(component_info)
             shdf_component_type == component_info[n][1]
             before == BuildComponentTypeAliases(SubSeq(component_info, 1, n - 1))
         IN  PutAliases(Put(before, shdf_component_type, shdf_component_type),
                        component_info[n][2].shdf_type_aliases, shdf_component_type)

\* the SHDF pin name derived from a Wokwi pin name of a component type
derive_shdf_pin(wokwi_pin, shdf_component_type) ==
    IF isdigit(wokwi_pin) THEN s_pin \o wokwi_pin
    ELSE IF shdf_component_type \in {s_arduino_uno, s_7segment_display}
    THEN lower(SelectSeq(wokwi_pin, LAMBDA c : c /= "."))
    ELSE IF Contains(wokwi_pin, <<".">>)
    THEN LET parts == split(wokwi_pin, <<".">>)
             prefix == IF isdigit(parts[1]) THEN s_pin \o parts[1] ELSE lower(parts[1])
             suffix == IF isdigit(parts[2]) THEN s_pin \o parts[2] ELSE lower(parts[2])
         IN  prefix \o <<".">> \o suffix
    ELSE lower(wokwi_pin)

\* the pins of one catalog record that the loop processes (name and description non-empty)
MappedPins(component) ==
    SelectSeq(component.pins, LAMBDA p : p.pin_name /= <<>> /\ p.description /= <<>>)

\* PIN_MAPPINGS[shdf_component_type] after the pin loop
RECURSIVE BuildPinMap(_, _)
BuildPinMap(pins, shdf_component_type) ==
    IF pins = <<>> THEN <<>>
    ELSE LET n == Len(pins)
         IN  Put(BuildPinMap(SubSeq(pins, 1, n - 1), shdf_component_type),
                 pins[n].pin_name,
                 derive_shdf_pin(pins[n].pin_name, shdf_component_type))

\* REVERSE_PIN_MAPPINGS[shdf_component_type] after the pin loop
RECURSIVE BuildReversePinMap(_, _)
BuildReversePinMap(pins, shdf_component_type) ==
    IF pins = <<>> THEN <<>>
    ELSE LET n == Len(pins)
         IN  Put(BuildReversePinMap(SubSeq(pins, 1, n - 1), shdf_component_type),
                 derive_shdf_pin(pins[n].pin_name, shdf_component_type),
                 pins[n].pin_name)

\* PIN_NAME_ALIASES[shdf_component_type] after the pin loop
RECURSIVE BuildPinAliasMap(_, _)
BuildPinAliasMap(pins, shdf_component_type) ==
    IF pins = <<>> THEN <<>>
    ELSE LET n == Len(pins)
             shdf_pin == derive_shdf_pin(pins[n].pin_name, shdf_component_type)
             before == BuildPinAliasMap(SubSeq(pins, 1, n - 1), shdf_component_type)
         IN  PutAliases(Put(before, lower(shdf_pin), shdf_pin),
                        pins[n].pin_aliases, shdf_pin)

\* PIN_MAPPINGS after update_pin_mappings_from_module_info
BuildPinMappings(component_info) ==
    [i \in 1..Len(component_info) |->
        <<component_info[i][1],
          BuildPinMap(MappedPins(component_info[i][2]), component_info[i][1])>>]

\* REVERSE_PIN_MAPPINGS after update_pin_mappings_from_module_info
BuildReversePinMappings(component_info) ==
    [i \in 1..Len(component_info) |->
        <<component_info[i][1],
          BuildReversePinMap(MappedPins(component_info[i][2]), component_info[i][1])>>]

\* PIN_NAME_ALIASES after update_pin_mappings_from_module_info
BuildPinNameAliases(component_info) ==
    [i \in 1..Len(component_info) |->
        <<component_info[i][1],
          BuildPinAliasMap(MappedPins(component_info[i][2]), component_info[i][1])>>]

\* the tables as the module-level assignments leave them, when the update
\* functions have not run
TablesLoaded_unbuilt(module_info) ==
    /\ TYPE_MAPPINGS = <<>>
    /\ SHDF_TYPE_ALIASES = <<>>
    /\ REVERSE_TYPE_MAPPINGS = <<>>
    /\ COMPONENT_TYPE_ALIASES = <<>>
    /\ PIN_MAPPINGS = <<>>
    /\ REVERSE_PIN_MAPPINGS = <<>>
    /\ PIN_NAME_ALIASES = <<>>

\* the module-level calls update_type_mappings_from_module_info() and
\* update_pin_mappings_from_module_info(), run when the packages are imported
TablesLoaded(module_info) ==
    LET type_info == type_load_module_info(module_info)
        pin_info == pin_load_module_info(module_info)
    IN  /\ TYPE_MAPPINGS = BuildTypeMappings(type_info)
        /\ SHDF_TYPE_ALIASES = BuildShdfTypeAliases(type_info)
        /\ REVERSE_TYPE_MAPPINGS = BuildReverseTypeMappings(BuildTypeMappings(type_info))
        /\ COMPONENT_TYPE_ALIASES = BuildComponentTypeAliases(pin_info)
        /\ PIN_MAPPINGS = BuildPinMappings(pin_info)
        /\ REVERSE_PIN_MAPPINGS = BuildReversePinMappings(pin_info)
        /\ PIN_NAME_ALIASES = BuildPinNameAliases(pin_info)

----------------------------------------------------------------------------
(* Outcomes of a call: a returned value or a raised exception              *)

Ok(v) ==
    [raised |-> FALSE, val |-> v]

Raise(e) ==
    [raised |-> TRUE, exc |-> e]

\* Python truth value of a string or None
Truthy(s) ==
    s /= None /\ s /= <<>>

----------------------------------------------------------------------------
(* converters/type_mappings.py                                             *)

wokwi_to_shdf_type(wokwi_component_type) ==
    IF HasKey(TYPE_MAPPINGS, wokwi_component_type)
    THEN Get(TYPE_MAPPINGS, wokwi_component_type)
    ELSE replace(lower(replace(wokwi_component_type, s_wokwi_prefix, <<>>)), <<"-">>, <<" ">>)

shdf_to_wokwi_type(shdf_component_type) ==
    IF HasKey(REVERSE_TYPE_MAPPINGS, shdf_component_type)
    THEN Get(REVERSE_TYPE_MAPPINGS, shdf_component_type)
    ELSE s_wokwi_prefix \o replace(shdf_component_type, <<" ">>, <<"-">>)

shdf_alias_check(shdf_component_type) ==
    IF HasKey(SHDF_TYPE_ALIASES, shdf_component_type)
    THEN Get(SHDF_TYPE_ALIASES, shdf_component_type)
    ELSE shdf_component_type

----------------------------------------------------------------------------
(* converters/pin_mappings.py                                              *)

\* The except branch prints shdf_component_type, which is unbound when the
\* lookup failed: the handler itself raises UnboundLocalError.
wokwi_to_shdf_pin(component_id, wokwi_pin) ==
    LET wokwi_pin_lower == lower(wokwi_pin)
        wokwi_component_type == strip_trailing_number(component_id)
    IN  IF ~HasKey(COMPONENT_TYPE_ALIASES, lower(wokwi_component_type))
        THEN Raise("UnboundLocalError")
        ELSE LET shdf_component_type ==
                     Get(COMPONENT_TYPE_ALIASES, lower(wokwi_component_type))
                 component_mappings ==
                     IF HasKey(PIN_MAPPINGS, shdf_component_type)
                     THEN Get(PIN_MAPPINGS, shdf_component_type)
                     ELSE <<>>
             IN  IF HasKey(component_mappings, wokwi_pin)
                 THEN Ok(Get(component_mappings, wokwi_pin))
                 ELSE IF HasKey(component_mappings, wokwi_pin_lower)
                 THEN Ok(Get(component_mappings, wokwi_pin_lower))
                 ELSE Ok(wokwi_pin)

shdf_to_wokwi_pin(shdf_pin, shdf_component_type_arg) ==
    LET shdf_component_type ==
            IF shdf_component_type_arg /= None
               /\ HasKey(COMPONENT_TYPE_ALIASES, lower(shdf_component_type_arg))
            THEN Get(COMPONENT_TYPE_ALIASES, lower(shdf_component_type_arg))
            ELSE shdf_component_type_arg
        shdf_pin_lower ==
            IF HasKey(PIN_NAME_ALIASES, shdf_component_type)
               /\ HasKey(Get(PIN_NAME_ALIASES, shdf_component_type), lower(shdf_pin))
            THEN Get(Get(PIN_NAME_ALIASES, shdf_component_type), lower(shdf_pin))
            ELSE lower(shdf_pin)
    IN  IF ~HasKey(REVERSE_PIN_MAPPINGS, shdf_component_type)
        THEN Raise("KeyError")
        ELSE IF ~HasKey(Get(REVERSE_PIN_MAPPINGS, shdf_component_type), shdf_pin_lower)
        THEN Raise("KeyError")
        ELSE Ok(Get(Get(REVERSE_PIN_MAPPINGS, shdf_component_type), shdf_pin_lower))

\* the patterns are ^re.escape(name)$ for literal names: a pattern is kept as
\* the lower-cased name it matches
RECURSIVE AppendNew(_, _)
AppendNew(patterns, names) ==
    IF names = <<>> THEN patterns
    ELSE LET n == Len(names)
             before == AppendNew(patterns, SubSeq(names, 1, n - 1))
         IN  IF lower(names[n]) \in Range(before) THEN before
             ELSE Append(before, lower(names[n]))

get_all_pin_patterns ==
    LET from_pins ==
            [i \in 1..Len(PIN_MAPPINGS) |->
                <<PIN_MAPPINGS[i][1],
                  AppendNew(<<>>, [j \in 1..Len(PIN_MAPPINGS[i][2]) |-> PIN_MAPPINGS[i][2][j][2]])>>]
        AliasNames(i) ==
            [j \in 1..Len(PIN_NAME_ALIASES[i][2]) |-> PIN_NAME_ALIASES[i][2][j][1]]
        RECURSIVE AddAliases(_)
        AddAliases(n) ==
            IF n = 0 THEN from_pins
            ELSE LET before == AddAliases(n - 1)
                     type == PIN_NAME_ALIASES[n][1]
                     old == IF HasKey(before, type) THEN Get(before, type) ELSE <<>>
                 IN  Put(before, type, AppendNew(old, AliasNames(n)))
    IN  AddAliases(Len(PIN_NAME_ALIASES))

----------------------------------------------------------------------------
(* converters/standard_to_wokwi.py                                         *)

\* d.get(key, default) of a JSON object
FieldOr(obj, key, default) ==
    IF key \in DOMAIN obj THEN obj[key] ELSE default

_get_wokwi_type(shdf_component_type) ==
    shdf_to_wokwi_type(shdf_component_type)

_get_wokwi_id(shdf_component_id, shdf_component_type) ==
    LET match == TrailingDigitCount(shdf_component_id) > 0
    IN  IF shdf_alias_check(shdf_component_id) = shdf_component_type /\ match
        THEN shdf_component_type \o <<"1">>
        ELSE IF match
        THEN shdf_component_type \o trailing_number(shdf_component_id)
        ELSE shdf_component_id

_calculate_position(wokwi_component_type, index, mode) ==
    IF wokwi_component_type = s_wokwi_arduino_uno
    THEN [top |-> 200, left |-> 20]
    ELSE IF wokwi_component_type = s_wokwi_breadboard
    THEN [top |-> 0, left |-> 100]
    ELSE IF wokwi_component_type = s_wokwi_resistor
    THEN [top |-> 100, left |-> 150 + (index * 50), rotate |-> 90]
    ELSE IF wokwi_component_type = s_wokwi_led
    THEN [top |-> 50, left |-> 150 + (index * 50)]
    ELSE IF wokwi_component_type = s_wokwi_pushbutton
    THEN [top |-> 150, left |-> 150 + (index * 50), rotate |-> 90]
    ELSE IF mode = "logical"
    THEN [top |-> 100, left |-> 200 + (index * 80)]
    ELSE [top |-> 50 + (index * 30), left |-> 150 + (index * 40)]

\* a translation that takes the side from the column: one digit top, more
\* digits bottom
_convert_to_wokwi_point_side_by_column(shdf_point, component_type_map) ==
    IF Contains(shdf_point, s_breadboard)
    THEN LET parts == split1(shdf_point, <<".">>)
         IN  IF Len(parts) /= 2 THEN Raise("ValueError")
             ELSE LET bb_id == parts[1]
                      position == parts[2]
                  IN  IF Contains(position, <<"p">>) \/ Contains(position, <<"n">>)
                      THEN LET rail_type == alphas_of(position)
                               col == digits_of(position)
                           IN  Ok(bb_id \o <<":">> \o rail_type \o <<".">> \o col)
                      ELSE LET col == digits_of(position)
                               row == alphas_of(position)
                               side == IF Len(col) = 1 THEN <<"t">> ELSE <<"b">>
                           IN  Ok(bb_id \o <<":">> \o col \o side \o <<".">> \o row)
    ELSE IF Contains(shdf_point, <<".">>)
    THEN LET parts == split1(shdf_point, <<".">>)
             shdf_component_id == parts[1]
             shdf_pin == parts[2]
         IN  IF ~HasKey(component_type_map, shdf_component_id)
             THEN Raise("KeyError")
             ELSE LET shdf_component_type == Get(component_type_map, shdf_component_id)
                      wokwi_pin == shdf_to_wokwi_pin(shdf_pin, shdf_component_type)
                  IN  IF wokwi_pin.raised THEN wokwi_pin
                      ELSE Ok(_get_wokwi_id(shdf_component_id, shdf_component_type)
                                \o <<":">> \o wokwi_pin.val)
    ELSE Ok(shdf_point)

_convert_to_wokwi_point(shdf_point, component_type_map) ==
    IF Contains(shdf_point, s_breadboard)
    THEN LET parts == split1(shdf_point, <<".">>)
         IN  IF Len(parts) /= 2 THEN Raise("ValueError")
             ELSE LET bb_id == parts[1]
                      position == parts[2]
                  IN  IF Contains(position, <<"p">>) \/ Contains(position, <<"n">>)
                      THEN LET rail_type == alphas_of(position)
                               col == digits_of(position)
                           IN  Ok(bb_id \o <<":">> \o rail_type \o <<".">> \o col)
                      ELSE LET col == digits_of(position)
                               row == alphas_of(position)
                               side == IF Contains(s_abcde, lower(row)) THEN <<"t">> ELSE <<"b">>
                           IN  Ok(bb_id \o <<":">> \o col \o side \o <<".">> \o row)
    ELSE IF Contains(shdf_point, <<".">>)
    THEN LET parts == split1(shdf_point, <<".">>)
             shdf_component_id == parts[1]
             shdf_pin == parts[2]
         IN  IF ~HasKey(component_type_map, shdf_component_id)
             THEN Raise("KeyError")
             ELSE LET shdf_component_type == Get(component_type_map, shdf_component_id)
                      wokwi_pin == shdf_to_wokwi_pin(shdf_pin, shdf_component_type)
                  IN  IF wokwi_pin.raised THEN wokwi_pin
                      ELSE Ok(_get_wokwi_id(shdf_component_id, shdf_component_type)
                                \o <<":">> \o wokwi_pin.val)
    ELSE Ok(shdf_point)

\* int(hashlib.md5(points.encode()).hexdigest(), 16): a fixed function of the
\* character sequence that depends on the order of the characters; CharCode
\* is the position of a character in the alphabet of the stand-in digest
RECURSIVE md5_int(_)
md5_int(points) ==
    LET CharCode(c) ==
            IF IsDigitChar(c) THEN 1 + (CHOOSE d \in 0..9 : str(d) = <<c>>)
            ELSE IF \E i \in 1..26 : LowerLetters[i] = c
            THEN 11 + (CHOOSE i \in 1..26 : LowerLetters[i] = c)
            ELSE IF \E i \in 1..26 : UpperLetters[i] = c
            THEN 37 + (CHOOSE i \in 1..26 : UpperLetters[i] = c)
            ELSE 64
    IN  IF points = <<>> THEN 7
        ELSE (31 * md5_int(SubSeq(points, 1, Len(points) - 1))
                + CharCode(points[Len(points)])) % 65521

WireColors ==
    <<"blue", "green", "yellow", "orange", "purple">>

_determine_wire_color(from_point, to_point) ==
    LET points == from_point \o to_point
    IN  IF Contains(lower(points), s_gnd) THEN "black"
        ELSE IF Contains(lower(points), s_5v) \/ Contains(lower(points), s_3_3v) THEN "red"
        ELSE IF Contains(points, s_anode) \/ Contains(points, s_cathode) THEN "green"
        ELSE WireColors[(md5_int(points) % Len(WireColors)) + 1]

\* the loop over component["properties"].items(): attrs so far, or the ValueError
RECURSIVE ExtractAttrs(_, _)
ExtractAttrs(properties, shdf_component_type) ==
    IF properties = <<>> THEN Ok(<<>>)
    ELSE LET n == Len(properties)
             before == ExtractAttrs(SubSeq(properties, 1, n - 1), shdf_component_type)
             key == properties[n][1]
             value == properties[n][2]
         IN  IF before.raised THEN before
             ELSE IF key \in {"color", "digits"}
             THEN Ok(Put(before.val, key, value))
             ELSE IF key = "value" /\ shdf_component_type = s_resistor
             THEN LET stripped == strip(replace(replace(value, s_ohm, <<>>), <<"k">>, s_000))
                  IN  IF ~isdigit(stripped) THEN Raise("ValueError")
                      ELSE Ok(Put(before.val, "value", stripped))
             ELSE before

\* the component after the body of the component loop ran on it
ComponentAfter(component) ==
    IF shdf_alias_check(FieldOr(component, "type", None)) = s_4digit_7segment_display
    THEN [k \in DOMAIN component \cup {"properties"} |->
            IF k = "properties" THEN <<<<"digits", s_4>>>> ELSE component[k]]
    ELSE component

\* the state of convert_standard_to_wokwi after the first n components:
\* parts, component_type_map, the components as the loop left them, raised
RECURSIVE ProcessComponents(_, _, _)
ProcessComponents(components, n, mode) ==
    IF n = 0
    THEN [raised |-> FALSE, parts |-> <<>>, component_type_map |-> <<>>,
          components |-> components]
    ELSE LET before == ProcessComponents(components, n - 1, mode)
             component == components[n]
             shdf_component_id == FieldOr(component, "id", None)
             resolved == shdf_alias_check(FieldOr(component, "type", None))
         IN  IF before.raised \/ resolved = None THEN before
             ELSE LET after == ComponentAfter(component)
                      shdf_component_type ==
                          IF resolved = s_4digit_7segment_display
                          THEN s_7segment_display ELSE resolved
                      wokwi_component_type == _get_wokwi_type(shdf_component_type)
                      wokwi_component_id == _get_wokwi_id(shdf_component_id, shdf_component_type)
                      attrs == IF "properties" \in DOMAIN after
                               THEN ExtractAttrs(after.properties, shdf_component_type)
                               ELSE Ok(<<>>)
                      position == _calculate_position(wokwi_component_type, n - 1, mode)
                      base == [type |-> wokwi_component_type, id |-> wokwi_component_id,
                               top |-> position.top, left |-> position.left,
                               attrs |-> IF attrs.raised THEN <<>> ELSE attrs.val]
                      wokwi_part == IF "rotate" \in DOMAIN position
                                    THEN [k \in DOMAIN base \cup {"rotate"} |->
                                            IF k = "rotate" THEN position.rotate ELSE base[k]]
                                    ELSE base
                      mutated == [before.components EXCEPT ![n] = after]
                      map == Put(before.component_type_map, shdf_component_id, shdf_component_type)
                  IN  IF attrs.raised
                      THEN [raised |-> TRUE, exc |-> attrs.exc, parts |-> before.parts,
                            component_type_map |-> map, components |-> mutated]
                      ELSE [raised |-> FALSE, parts |-> Append(before.parts, wokwi_part),
                            component_type_map |-> map, components |-> mutated]

\* the connections list after the first n connections, or the exception
RECURSIVE ProcessConnections(_, _, _)
ProcessConnections(connections, n, component_type_map) ==
    IF n = 0 THEN Ok(<<>>)
    ELSE LET connection == connections[n]
             Converted(before, endpoint1_wokwi, endpoint2_wokwi) ==
                 IF endpoint1_wokwi.raised THEN endpoint1_wokwi
                 ELSE IF endpoint2_wokwi.raised THEN endpoint2_wokwi
                 ELSE IF Truthy(endpoint1_wokwi.val) /\ Truthy(endpoint2_wokwi.val)
                 THEN Ok(Append(before.val,
                           <<endpoint1_wokwi.val, endpoint2_wokwi.val,
                             _determine_wire_color(connection[1], connection[2]), <<>>>>))
                 ELSE before
             Body(before) ==
                 IF before.raised THEN before
                 ELSE IF Len(connection) /= 2 THEN Raise("AttributeError")
                 ELSE Converted(before,
                                _convert_to_wokwi_point(connection[1], component_type_map),
                                _convert_to_wokwi_point(connection[2], component_type_map))
         IN  Body(ProcessConnections(connections, n - 1, component_type_map))

\* convert_standard_to_wokwi: the outcome, and the argument as the call left it
convert_standard_to_wokwi(diagram, mode) ==
    LET components == FieldOr(diagram, "components", <<>>)
        connections == FieldOr(diagram, "connections", <<>>)
        Result(comps, conns) ==
            LET arg_after == IF "components" \in DOMAIN diagram
                             THEN [diagram EXCEPT !.components = comps.components]
                             ELSE diagram
            IN  IF conns.raised
                THEN [raised |-> TRUE, exc |-> conns.exc, arg_after |-> arg_after]
                ELSE [raised |-> FALSE,
                      val |-> [version |-> 1, author |-> "Arduino-LLM",
                               editor |-> "Inpyo Song and Eunji Jeon",
                               parts |-> comps.parts, connections |-> conns.val],
                      arg_after |-> arg_after]
        AfterComponents(comps) ==
            Result(comps,
                   IF comps.raised THEN Raise(comps.exc)
                   ELSE ProcessConnections(connections, Len(connections),
                                           comps.component_type_map))
    IN  AfterComponents(ProcessComponents(components, Len(components), mode))

----------------------------------------------------------------------------
(* converters/wokwi_to_standard.py                                         *)

_convert_connection_point(wokwi_point, mode) ==
    IF Contains(wokwi_point, s_breadboard)
    THEN IF mode = "logical" THEN Ok(None)
         ELSE LET after_colon == split1(wokwi_point, <<":">>)
              IN  IF Len(after_colon) < 2 THEN Raise("IndexError")
                  ELSE IF Contains(wokwi_point, <<"p">>) \/ Contains(wokwi_point, <<"n">>)
                  THEN LET bb_parts == split(after_colon[2], <<".">>)
                       IN  IF Len(bb_parts) = 2
                           THEN LET row == bb_parts[1]
                                    col == digits_of(bb_parts[2])
                                IN  Ok(s_breadboard \o <<".">> \o col \o row)
                           ELSE Raise("ValueError")
                  ELSE LET bb_parts == split1(after_colon[2], <<".">>)
                       IN  IF Len(bb_parts) = 2
                           THEN LET col == digits_of(bb_parts[1])
                                    row == bb_parts[2]
                                IN  Ok(s_breadboard \o <<".">> \o col \o row)
                           ELSE Raise("ValueError")
    ELSE IF Contains(wokwi_point, <<":">>)
    THEN LET parts == split1(wokwi_point, <<":">>)
             component_id == parts[1]
             shdf_pin == wokwi_to_shdf_pin(component_id, parts[2])
         IN  IF shdf_pin.raised THEN shdf_pin
             ELSE Ok(component_id \o <<".">> \o lower(shdf_pin.val))
    ELSE Ok(wokwi_point)

\* part.get("attrs", {}).get("digits", "") == "4" for a wokwi-7segment part
IsFourDigit(part) ==
    /\ part.type = s_wokwi_7segment
    /\ "attrs" \in DOMAIN part
    /\ HasKey(part.attrs, "digits")
    /\ Get(part.attrs, "digits") = s_4

\* the part after the body of the part loop ran on it
PartAfter(part) ==
    IF IsFourDigit(part) THEN [part EXCEPT !.attrs = <<>>] ELSE part

\* the loop over part["attrs"].items()
RECURSIVE ExtractProperties(_, _)
ExtractProperties(attrs, shdf_component_type) ==
    IF attrs = <<>> THEN <<>>
    ELSE LET n == Len(attrs)
             before == ExtractProperties(SubSeq(attrs, 1, n - 1), shdf_component_type)
             key == attrs[n][1]
             value == attrs[n][2]
         IN  IF key = "color" THEN Put(before, "color", lower(value))
             ELSE IF key = "value" /\ shdf_component_type = s_resistor
             THEN IF ~endswith(value, s_ohm) /\ ~endswith(value, s_omega)
                  THEN Put(before, "value", value \o s_space_ohm)
                  ELSE Put(before, "value", value)
             ELSE IF key \in {"label", "frequency", "threshold"}
             THEN Put(before, key, value)
             ELSE before

\* the SHDF component made from one part
StandardComponent(part) ==
    LET wokwi_component_type ==
            IF IsFourDigit(part) THEN s_4digit_wokwi_7segment ELSE part.type
        shdf_component_type == wokwi_to_shdf_type(wokwi_component_type)
        after == PartAfter(part)
        properties == IF "attrs" \in DOMAIN after
                      THEN ExtractProperties(after.attrs, shdf_component_type)
                      ELSE <<>>
    IN  IF properties /= <<>>
        THEN [id |-> part.id, type |-> shdf_component_type, properties |-> properties]
        ELSE [id |-> part.id, type |-> shdf_component_type]

\* a part loop without the skip of the breadboard part
KeptParts_keep_breadboard(parts, mode) ==
    parts

\* the parts the part loop does not skip
KeptParts(parts, mode) ==
    SelectSeq(parts, LAMBDA part : ~(mode = "logical" /\ part.type = s_wokwi_breadboard))

\* the connections list after the first n connections, or the exception
RECURSIVE StandardConnections(_, _, _)
StandardConnections(connections, n, mode) ==
    IF n = 0 THEN Ok(<<>>)
    ELSE LET conn == connections[n]
             Converted(before, shdf_from_point, shdf_to_point) ==
                 IF shdf_from_point.raised THEN shdf_from_point
                 ELSE IF shdf_to_point.raised THEN shdf_to_point
                 ELSE IF Truthy(shdf_from_point.val) /\ Truthy(shdf_to_point.val)
                 THEN Ok(Append(before.val, <<shdf_from_point.val, shdf_to_point.val>>))
                 ELSE before
             Body(before) ==
                 IF before.raised THEN before
                 ELSE IF Len(conn) < 2 THEN before
                 ELSE IF mode = "logical" /\ Contains(conn[1], s_breadboard)
                                          /\ Contains(conn[2], s_breadboard)
                 THEN before
                 ELSE Converted(before,
                                _convert_connection_point(conn[1], mode),
                                _convert_connection_point(conn[2], mode))
         IN  Body(StandardConnections(connections, n - 1, mode))

\* convert_wokwi_to_standard: the outcome, and the argument as the call left it
convert_wokwi_to_standard(diagram, mode) ==
    LET parts == FieldOr(diagram, "parts", <<>>)
        connections == FieldOr(diagram, "connections", <<>>)
        ComponentsOf(kept) == [i \in 1..Len(kept) |-> StandardComponent(kept[i])]
        components == ComponentsOf(KeptParts(parts, mode))
        arg_after ==
            IF "parts" \in DOMAIN diagram
            THEN [diagram EXCEPT !.parts =
                    [i \in 1..Len(parts) |->
                        IF mode = "logical" /\ parts[i].type = s_wokwi_breadboard
                        THEN parts[i] ELSE PartAfter(parts[i])]]
            ELSE diagram
        Result(conns) ==
            IF conns.raised
            THEN [raised |-> TRUE, exc |-> conns.exc, arg_after |-> arg_after]
            ELSE [raised |-> FALSE,
                  val |-> [components |-> components, connections |-> conns.val],
                  arg_after |-> arg_after]
    IN  Result(StandardConnections(connections, Len(connections), mode))

----------------------------------------------------------------------------
(* schema/validator.py                                                     *)

\* Maximum breadboard column of the range check (1-60)
MaxColumn ==
    60

\* jsonschema.validate against shdf_schema.json: the document has components
\* and connections, every component has id and type, every connection has
\* exactly two endpoints
schema_validate(normalized_data) ==
    /\ {"components", "connections"} \subseteq DOMAIN normalized_data
    /\ \A i \in 1..Len(normalized_data.components) :
            {"id", "type"} \subseteq DOMAIN normalized_data.components[i]
    /\ \A i \in 1..Len(normalized_data.connections) :
            Len(normalized_data.connections[i]) = 2

\* the document after the loop of validate_shdf: component["type"] is
\* assigned through the shallow copy, so the caller's components change
LowercasedTypes(shdf_data) ==
    IF "components" \in DOMAIN shdf_data
    THEN [shdf_data EXCEPT !.components =
            [i \in 1..Len(shdf_data.components) |->
                IF "type" \in DOMAIN shdf_data.components[i]
                THEN [shdf_data.components[i] EXCEPT !.type = lower(@)]
                ELSE shdf_data.components[i]]]
    ELSE shdf_data

\* comp_type not in SHDF_TYPE_ALIASES and comp_type not in TYPE_MAPPINGS.values()
InvalidType(comp_type) ==
    ~HasKey(SHDF_TYPE_ALIASES, comp_type) /\ comp_type \notin Values(TYPE_MAPPINGS)

RECURSIVE TypeErrors(_, _)
TypeErrors(components, n) ==
    IF n = 0 THEN <<>>
    ELSE LET before == TypeErrors(components, n - 1)
         IN  IF "type" \in DOMAIN components[n] /\ InvalidType(lower(components[n].type))
             THEN Append(before, [kind |-> "Invalid component type",
                                  comp_type |-> lower(components[n].type)])
             ELSE before

validate_shdf(shdf_data) ==
    LET components == FieldOr(shdf_data, "components", <<>>)
        errors == TypeErrors(components, Len(components))
    IN  IF errors /= <<>> THEN [is_valid |-> FALSE, errors |-> errors]
        ELSE IF schema_validate(LowercasedTypes(shdf_data))
        THEN [is_valid |-> TRUE, errors |-> <<>>]
        ELSE [is_valid |-> FALSE, errors |-> <<[kind |-> "Validation error"]>>]

\* the endpoints of all connections in the order of the nested loops, with
\* their connection index i and endpoint index j
RECURSIVE EndpointsOf(_, _)
EndpointsOf(connections, n) ==
    IF n = 0 THEN <<>>
    ELSE EndpointsOf(connections, n - 1)
            \o [j \in 1..Len(connections[n]) |->
                    [i |-> n - 1, j |-> j - 1, endpoint |-> connections[n][j]]]

\* the concatenation of a sequence of lists
RECURSIVE Flatten(_)
Flatten(lists) ==
    IF lists = <<>> THEN <<>>
    ELSE Flatten(SubSeq(lists, 1, Len(lists) - 1)) \o lists[Len(lists)]

\* the errors of a loop over endpoints: per_endpoint[k] is <<>> or the errors
\* appended for the k-th endpoint
CollectErrors(per_endpoint) ==
    Flatten(per_endpoint)

\* validate_component_ids without the uniqueness check
validate_component_ids_no_unique(shdf_data) ==
    LET components == FieldOr(shdf_data, "components", <<>>)
        valid_ids == {components[i].id : i \in 1..Len(components)}
        connections == FieldOr(shdf_data, "connections", <<>>)
        Err(e) ==
            IF Contains(e.endpoint, <<".">>)
            THEN LET comp_id == split1(e.endpoint, <<".">>)[1]
                 IN  IF comp_id \notin valid_ids /\ comp_id /= s_breadboard
                     THEN <<[kind |-> "unknown component ID", i |-> e.i, j |-> e.j,
                             comp_id |-> comp_id]>>
                     ELSE <<>>
            ELSE <<>>
        errors == LET endpoints == EndpointsOf(connections, Len(connections))
                  IN  CollectErrors([k \in 1..Len(endpoints) |-> Err(endpoints[k])])
    IN  [is_valid |-> Len(errors) = 0, errors |-> errors]

validate_component_ids(shdf_data) ==
    LET components == FieldOr(shdf_data, "components", <<>>)
        component_ids == [i \in 1..Len(components) |-> components[i].id]
        unique == IF Len(component_ids) /= Cardinality(Range(component_ids))
                  THEN <<[kind |-> "Component IDs must be unique"]>>
                  ELSE <<>>
        valid_ids == Range(component_ids)
        connections == FieldOr(shdf_data, "connections", <<>>)
        Err(e) ==
            IF Contains(e.endpoint, <<".">>)
            THEN LET comp_id == split1(e.endpoint, <<".">>)[1]
                 IN  IF comp_id \notin valid_ids /\ comp_id /= s_breadboard
                     THEN <<[kind |-> "unknown component ID", i |-> e.i, j |-> e.j,
                             comp_id |-> comp_id]>>
                     ELSE <<>>
            ELSE <<>>
        errors == unique \o LET endpoints == EndpointsOf(connections, Len(connections))
                  IN  CollectErrors([k \in 1..Len(endpoints) |-> Err(endpoints[k])])
    IN  [is_valid |-> Len(errors) = 0, errors |-> errors]

\* re.match(r"^[a-zA-Z0-9_.]+$", pin_name)
MatchesAnyName(pin_name) ==
    /\ Len(pin_name) > 0
    /\ \A k \in 1..Len(pin_name) :
            IsAlphaChar(pin_name[k]) \/ IsDigitChar(pin_name[k]) \/ pin_name[k] \in {"_", "."}

\* comp_types = {comp["id"]: comp["type"] for comp in components}
RECURSIVE CompTypes(_, _)
CompTypes(components, n) ==
    IF n = 0 THEN <<>>
    ELSE Put(CompTypes(components, n - 1), components[n].id, components[n].type)

\* any(re.match(pattern, pin_name, re.IGNORECASE) for pattern in patterns)
PinNameAccepted(pin_name, comp_type) ==
    LET pin_patterns == get_all_pin_patterns
    IN  IF comp_type = s_breadboard THEN MatchesAnyName(pin_name)
        ELSE IF HasKey(pin_patterns, comp_type)
        THEN lower(pin_name) \in Range(Get(pin_patterns, comp_type))
        ELSE MatchesAnyName(pin_name)

validate_pin_names(shdf_data) ==
    LET components == FieldOr(shdf_data, "components", <<>>)
        comp_types == CompTypes(components, Len(components))
        connections == FieldOr(shdf_data, "connections", <<>>)
        Err(e) ==
            IF startswith(e.endpoint, s_breadboard \o <<".">>) THEN <<>>
            ELSE IF Contains(e.endpoint, <<".">>)
            THEN LET parts == split1(e.endpoint, <<".">>)
                     comp_id == parts[1]
                     pin_name == parts[2]
                 IN  IF ~HasKey(comp_types, comp_id) THEN <<>>
                     ELSE LET comp_type == lower(Get(comp_types, comp_id))
                          IN  IF ~PinNameAccepted(pin_name, comp_type)
                              THEN <<[kind |-> "invalid pin name", i |-> e.i, j |-> e.j,
                                      pin_name |-> pin_name, type |-> comp_type]>>
                              ELSE <<>>
            ELSE <<>>
        errors == LET endpoints == EndpointsOf(connections, Len(connections))
                  IN  CollectErrors([k \in 1..Len(endpoints) |-> Err(endpoints[k])])
    IN  [is_valid |-> Len(errors) = 0, errors |-> errors]

RowLetters ==
    {"a", "b", "c", "d", "e", "f", "g", "h", "i", "j"}

\* r"^breadboard\.(\d+)([a-j])$": the column digits, <<>> when there is no match
MatchStripCell(endpoint) ==
    LET rest == SubSeq(endpoint, Len(s_breadboard) + 2, Len(endpoint))
    IN  IF /\ startswith(endpoint, s_breadboard \o <<".">>)
           /\ Len(rest) >= 2
           /\ rest[Len(rest)] \in RowLetters
           /\ isdigit(SubSeq(rest, 1, Len(rest) - 1))
        THEN SubSeq(rest, 1, Len(rest) - 1)
        ELSE <<>>

\* r"^breadboard\.pin(\d+)([tb])\.([a-j])$": the column digits, <<>> when there is no match
MatchPinCell(endpoint) ==
    LET rest == SubSeq(endpoint, Len(s_breadboard) + 2, Len(endpoint))
        n == Len(rest)
    IN  IF /\ startswith(endpoint, s_breadboard \o <<".">> \o s_pin)
           /\ n >= 7
           /\ rest[n] \in RowLetters
           /\ rest[n - 1] = "."
           /\ rest[n - 2] \in {"t", "b"}
           /\ isdigit(SubSeq(rest, 4, n - 3))
        THEN SubSeq(rest, 4, n - 3)
        ELSE <<>>

\* r"^breadboard\.bn\.(\d+)$"
MatchBnRail(endpoint) ==
    /\ startswith(endpoint, s_breadboard \o <<".", "b", "n", ".">>)
    /\ isdigit(SubSeq(endpoint, Len(s_breadboard) + 5, Len(endpoint)))

validate_breadboard_positions(shdf_data) ==
    LET connections == FieldOr(shdf_data, "connections", <<>>)
        \* column < 1 or column > 60
        ColumnOutOfRange(column) ==
            column < 1 \/ column > MaxColumn
        Range_error(e, digits) ==
            IF ColumnOutOfRange(int(digits))
            THEN <<[kind |-> "invalid breadboard column", i |-> e.i, j |-> e.j,
                    column |-> int(digits)]>>
            ELSE <<>>
        Err(e) ==
            IF ~startswith(e.endpoint, s_breadboard \o <<".">>) THEN <<>>
            ELSE IF MatchStripCell(e.endpoint) /= <<>>
            THEN Range_error(e, MatchStripCell(e.endpoint))
            ELSE IF MatchPinCell(e.endpoint) /= <<>>
            THEN Range_error(e, MatchPinCell(e.endpoint))
            ELSE IF MatchBnRail(e.endpoint) THEN <<>>
            ELSE <<[kind |-> "invalid breadboard position format", i |-> e.i, j |-> e.j,
                    endpoint |-> e.endpoint]>>
        errors == LET endpoints == EndpointsOf(connections, Len(connections))
                  IN  CollectErrors([k \in 1..Len(endpoints) |-> Err(endpoints[k])])
    IN  [is_valid |-> Len(errors) = 0, errors |-> errors]

\* validate_shdf_document without the early return after check 1
validate_shdf_document_ungated(shdf_data) ==
    LET schema == validate_shdf(shdf_data)
        after == LowercasedTypes(shdf_data)
        ids == validate_component_ids(after)
        pins == validate_pin_names(after)
        positions == validate_breadboard_positions(after)
        all_errors == schema.errors \o ids.errors \o pins.errors \o positions.errors
    IN  [is_valid |-> Len(all_errors) = 0, errors |-> all_errors,
         ran |-> <<"validate_shdf", "validate_component_ids",
                   "validate_pin_names", "validate_breadboard_positions">>,
         results |-> <<schema, ids, pins, positions>>,
         arg_after |-> after]

\* validate_shdf_document returning the is_valid of the last check
validate_shdf_document_last_check(shdf_data) ==
    LET schema == validate_shdf(shdf_data)
        after == LowercasedTypes(shdf_data)
        ids == validate_component_ids(after)
        pins == validate_pin_names(after)
        positions == validate_breadboard_positions(after)
        all_errors == schema.errors \o ids.errors \o pins.errors \o positions.errors
    IN  IF ~schema.is_valid
        THEN [is_valid |-> FALSE, errors |-> schema.errors,
              ran |-> <<"validate_shdf">>, results |-> <<schema>>,
              arg_after |-> after]
        ELSE [is_valid |-> positions.is_valid, errors |-> all_errors,
              ran |-> <<"validate_shdf", "validate_component_ids",
                        "validate_pin_names", "validate_breadboard_positions">>,
              results |-> <<schema, ids, pins, positions>>,
              arg_after |-> after]

\* validate_shdf_document: the result, the checks that ran in order with what
\* each returned, and the argument as the call left it
validate_shdf_document(shdf_data) ==
    LET schema == validate_shdf(shdf_data)
        after == LowercasedTypes(shdf_data)
        ids == validate_component_ids(after)
        pins == validate_pin_names(after)
        positions == validate_breadboard_positions(after)
        all_errors == schema.errors \o ids.errors \o pins.errors \o positions.errors
    IN  IF ~schema.is_valid
        THEN [is_valid |-> FALSE, errors |-> schema.errors,
              ran |-> <<"validate_shdf">>, results |-> <<schema>>,
              arg_after |-> after]
        ELSE [is_valid |-> Len(all_errors) = 0, errors |-> all_errors,
              ran |-> <<"validate_shdf", "validate_component_ids",
                        "validate_pin_names", "validate_breadboard_positions">>,
              results |-> <<schema, ids, pins, positions>>,
              arg_after |-> after]

----------------------------------------------------------------------------
(* The documents the callers pass in                                       *)

\* Python None where a document or an argument is expected
NoDoc ==
    [none |-> TRUE]

IsDoc(d) ==
    "none" \notin DOMAIN d

\* bound: components (parts) per document
MaxComponents ==
    2

\* bound: connections per document
MaxConnections ==
    2

\* bound: calls made on the documents of one run
MaxCalls ==
    2

Modes ==
    {"logical", "physical"}

\* the lists of at most n entries taken from a pool in the order of the pool
SubSeqsUpTo(pool, n) ==
    {LET picked == SelectSeq([i \in 1..Len(pool) |-> i], LAMBDA i : i \in S)
     IN  [k \in 1..Len(picked) |-> pool[picked[k]]] :
        S \in {T \in SUBSET (1..Len(pool)) : Cardinality(T) <= n}}

\* SHDF components: canonical types, an alias written in mixed case, two
\* unknown types, and a second declaration of led1
ShdfComponentPool ==
    <<[id |-> <<"l", "e", "d", "1">>, type |-> <<"l", "e", "d">>],
      [id |-> <<"r", "1">>, type |-> <<"r", "e", "s", "i", "s", "t", "o", "r">>],
      [id |-> <<"u", "n", "o">>, type |-> <<"A", "r", "d", "u", "i", "n", "o">>],
      [id |-> <<"x", "1">>, type |-> <<"f", "o", "o">>],
      [id |-> <<"y", "2">>, type |-> <<"B", "a", "r">>],
      [id |-> <<"l", "e", "d", "1">>, type |-> <<"l", "e", "d">>]>>

\* SHDF connections: valid pins, invalid pins, a dangling id, a breadboard cell
\* out of range, a malformed one, a pin of an alias-typed component with a pin
\* alias, two breadboard addresses
ShdfConnectionPool ==
    <<<<<<"l", "e", "d", "1", ".", "a">>, <<"r", "1", ".", "p", "i", "n", "1">>>>,
      <<<<"r", "1", ".", "b", "o", "g", "u", "s">>, <<"u", "n", "o", ".", "b", "o", "g", "u", "s">>>>,
      <<<<"g", "h", "o", "s", "t", "1", ".", "p", "i", "n", "1">>, <<"x", "1", ".", "a">>>>,
      <<<<"b", "r", "e", "a", "d", "b", "o", "a", "r", "d", ".", "6", "1", "a">>, <<"l", "e", "d", "1", ".", "a", "n", "o", "d", "e">>>>,
      <<<<"l", "e", "d", "1", ".", "c">>>>,
      <<<<"u", "n", "o", ".", "p", "i", "n", "1", "3">>, <<"l", "e", "d", "1", ".", "a", "n", "o", "d", "e">>>>,
      <<<<"b", "r", "e", "a", "d", "b", "o", "a", "r", "d", ".", "0", "a">>, <<"b", "r", "e", "a", "d", "b", "o", "a", "r", "d", ".", "b", "n", ".", "1", "8">>>>>>

\* the SHDF documents a generator hands to the validator and the converter
ShdfDocs ==
    {[components |-> cs, connections |-> ks] :
        cs \in SubSeqsUpTo(ShdfComponentPool, MaxComponents),
        ks \in SubSeqsUpTo(ShdfConnectionPool, MaxConnections)}

\* Wokwi parts
WokwiPartPool ==
    <<[id |-> <<"l", "e", "d", "1">>, type |-> s_wokwi_led, top |-> 100, left |-> 150,
       attrs |-> <<<<"color", <<"R", "e", "d">>>>>>],
      [id |-> <<"r", "e", "s", "i", "s", "t", "o", "r", "1">>, type |-> s_wokwi_resistor, top |-> 100, left |-> 150,
       attrs |-> <<<<"value", <<"2", "2", "0">>>>>>],
      [id |-> s_breadboard, type |-> s_wokwi_breadboard, top |-> 0, left |-> 100]>>

\* Wokwi connections: pin to pin, cell to cell, rail to pin, a pin of an id that names no type
WokwiConnectionPool ==
    <<<<<<"l", "e", "d", "1", ":", "A">>, <<"r", "e", "s", "i", "s", "t", "o", "r", "1", ":", "1">>, "green", <<>>>>,
      <<<<"b", "r", "e", "a", "d", "b", "o", "a", "r", "d", ":", "1", "0", "t", ".", "a">>, <<"b", "r", "e", "a", "d", "b", "o", "a", "r", "d", ":", "1", "0", "b", ".", "f">>, "green", <<>>>>,
      <<<<"b", "r", "e", "a", "d", "b", "o", "a", "r", "d", ":", "t", "n", ".", "1">>, <<"l", "e", "d", "1", ":", "C">>, "black", <<>>>>,
      <<<<"r", "1", ":", "1">>, <<"l", "e", "d", "1", ":", "A">>, "green", <<>>>>>>

\* the Wokwi diagrams of the benchmark projects
WokwiDocs ==
    {[version |-> 1, parts |-> ps, connections |-> ks] :
        ps \in SubSeqsUpTo(WokwiPartPool, MaxComponents),
        ks \in SubSeqsUpTo(WokwiConnectionPool, MaxConnections)}
----------------------------------------------------------------------------
(* The calls on documents                                                  *)

\* no argument for the single-endpoint calls
NoArg ==
    [kind |-> "none"]

Init ==
    /\ TablesLoaded(ModuleInfo)
    /\ calls = <<>>
    /\ point = NoArg
    /\ metric_diagram = NoDoc
    /\ metric_reference = NoDoc
    /\ metric_project_path = None
    /\ \/ standard_diagram \in ShdfDocs /\ wokwi_diagram = NoDoc
       \/ standard_diagram = NoDoc /\ wokwi_diagram \in WokwiDocs

\* is_valid, errors = validate_shdf_document(standard_diagram)
ValidateShdfDocument ==
    /\ IsDoc(standard_diagram)
    /\ Len(calls) < MaxCalls
    /\ LET Returned(r) ==
               /\ standard_diagram' = r.arg_after
               /\ calls' = Append(calls,
                    [fn |-> "validate_shdf_document", arg |-> standard_diagram,
                     raised |-> FALSE, is_valid |-> r.is_valid, errors |-> r.errors,
                     ran |-> r.ran, results |-> r.results])
       IN  Returned(validate_shdf_document(standard_diagram))
    /\ UNCHANGED <<tables, metric_diagram, metric_reference, metric_project_path, wokwi_diagram, point>>

\* wokwi_diagram = convert_standard_to_wokwi(standard_diagram, mode), None on an exception
ConvertStandardToWokwi(mode) ==
    /\ IsDoc(standard_diagram)
    /\ Len(calls) < MaxCalls
    /\ LET Returned(r) ==
               /\ standard_diagram' = r.arg_after
               /\ wokwi_diagram' = IF r.raised THEN NoDoc ELSE r.val
               /\ calls' = Append(calls,
                    [fn |-> "convert_standard_to_wokwi", arg |-> standard_diagram,
                     mode |-> mode, raised |-> r.raised,
                     ret |-> IF r.raised THEN NoDoc ELSE r.val])
       IN  Returned(convert_standard_to_wokwi(standard_diagram, mode))
    /\ UNCHANGED <<tables, metric_diagram, metric_reference, metric_project_path, point>>

\* standard_diagram = convert_wokwi_to_standard(wokwi_diagram, mode), None on an exception
ConvertWokwiToStandard(mode) ==
    /\ IsDoc(wokwi_diagram)
    /\ Len(calls) < MaxCalls
    /\ LET Returned(r) ==
               /\ wokwi_diagram' = r.arg_after
               /\ standard_diagram' = IF r.raised THEN NoDoc ELSE r.val
               /\ calls' = Append(calls,
                    [fn |-> "convert_wokwi_to_standard", arg |-> wokwi_diagram,
                     mode |-> mode, raised |-> r.raised,
                     ret |-> IF r.raised THEN NoDoc ELSE r.val])
       IN  Returned(convert_wokwi_to_standard(wokwi_diagram, mode))
    /\ UNCHANGED <<tables, metric_diagram, metric_reference, metric_project_path, point>>

Next ==
    \/ ValidateShdfDocument
    \/ \E mode \in Modes : ConvertStandardToWokwi(mode)
    \/ \E mode \in Modes : ConvertWokwiToStandard(mode)

Spec ==
    Init /\ [][Next]_vars

----------------------------------------------------------------------------
(* Properties of the calls on documents                                    *)

\* the calls of one function in the log
CallsOf(fn) ==
    {i \in 1..Len(calls) : calls[i].fn = fn}

\* the set of (id, type) of the components of an SHDF document
ComponentSet(doc) ==
    {<<doc.components[i].id, doc.components[i].type>> : i \in 1..Len(doc.components)}

\* the set of unordered endpoint pairs of an SHDF document
PairSet(doc) ==
    {{doc.connections[i][1], doc.connections[i][2]} : i \in 1..Len(doc.connections)}

\* the canonical SHDF pin names of a canonical type
CanonicalPins(type) ==
    IF HasKey(PIN_MAPPINGS, type) THEN Values(Get(PIN_MAPPINGS, type)) ELSE {}

\* an endpoint "<id>.<pin>" of a declared component with a canonical pin name
IsCatalogPin(endpoint, doc) ==
    /\ ~Contains(endpoint, s_breadboard)
    /\ Contains(endpoint, <<".">>)
    /\ \E i \in 1..Len(doc.components) :
            /\ doc.components[i].id = split1(endpoint, <<".">>)[1]
            /\ split1(endpoint, <<".">>)[2] \in CanonicalPins(doc.components[i].type)

\* a document of the round-trip property: canonical catalog types, distinct
\* ids, every connection joins two catalog pins of declared components
LogicalRoundTripDoc(doc) ==
    /\ \A i \in 1..Len(doc.components) : doc.components[i].type \in Values(TYPE_MAPPINGS)
    /\ \A i, j \in 1..Len(doc.components) :
            doc.components[i].id = doc.components[j].id => i = j
    /\ \A i \in 1..Len(doc.connections) :
            /\ Len(doc.connections[i]) = 2
            /\ IsCatalogPin(doc.connections[i][1], doc)
            /\ IsCatalogPin(doc.connections[i][2], doc)

\* C1: for every SHDF document whose connections all join two component pins
\* and whose types and pin names are in the catalog, converting it to Wokwi
\* and back in logical mode gives the same set of components (id and type)
\* and the same set of unordered endpoint pairs, whatever the ids are.
C1_LogicalRoundTrip ==
    \A i \in 1..(Len(calls) - 1) :
        ( /\ calls[i].fn = "convert_standard_to_wokwi"
          /\ calls[i].mode = "logical"
          /\ calls[i + 1].fn = "convert_wokwi_to_standard"
          /\ calls[i + 1].mode = "logical"
          /\ LogicalRoundTripDoc(calls[i].arg) )
        => /\ ~calls[i + 1].raised
           /\ ComponentSet(calls[i + 1].ret) = ComponentSet(calls[i].arg)
           /\ PairSet(calls[i + 1].ret) = PairSet(calls[i].arg)

\* the endpoint is a breadboard address for the converter: it names the breadboard
IsBreadboardPoint(endpoint) ==
    Contains(endpoint, s_breadboard)

\* the calls of convert_wokwi_to_standard in logical mode that returned
LogicalReturns ==
    {i \in CallsOf("convert_wokwi_to_standard") :
        calls[i].mode = "logical" /\ ~calls[i].raised}

\* the translation of a pin-to-pin connection
TranslatedConnection(conn, mode) ==
    <<_convert_connection_point(conn[1], mode).val,
      _convert_connection_point(conn[2], mode).val>>

OffendingComponents(doc) ==
    SelectSeq(doc.components, LAMBDA c : "type" \in DOMAIN c /\ InvalidType(lower(c.type)))

\* the document has the shape the schema requires
HasSchemaShape(doc) ==
    /\ \A k \in 1..Len(doc.components) : {"id", "type"} \subseteq DOMAIN doc.components[k]
    /\ \A k \in 1..Len(doc.connections) : Len(doc.connections[k]) = 2

\* check 1 fails on the document
FailsCheck1(doc) ==
    OffendingComponents(doc) /= <<>> \/ ~HasSchemaShape(doc)

\* C4: if a component's lower-cased type is neither an alias key nor a catalog
\* type, or the document fails the schema shape, validate_shdf_document
\* returns (False, errors) with check-1 errors only, one 'Invalid component
\* type' entry per offending component, and checks 2 to 4 are not run.
C4_Check1Gates ==
    \A i \in CallsOf("validate_shdf_document") :
        FailsCheck1(calls[i].arg)
        => LET offending == OffendingComponents(calls[i].arg)
           IN  /\ ~calls[i].is_valid
               /\ calls[i].ran = <<"validate_shdf">>
               /\ \A k \in 1..Len(calls[i].errors) :
                    calls[i].errors[k].kind \in {"Invalid component type", "Validation error"}
               /\ offending /= <<>>
                    => calls[i].errors =
                        [k \in 1..Len(offending) |->
                            [kind |-> "Invalid component type",
                             comp_type |-> lower(offending[k].type)]]

\* C4 witness: validation of a document with an offending type whose
\* connections would fail the ID check as well
C4_Witness ==
    \E i \in CallsOf("validate_shdf_document") :
        /\ Len(OffendingComponents(calls[i].arg)) = 2
        /\ ~validate_component_ids(calls[i].arg).is_valid
        /\ Len(calls[i].errors) = 2

\* C5: when check 1 passes, the ID, pin-name and breadboard checks all run,
\* whatever each returns; the error list is the concatenation of their lists
\* in that order, and is_valid holds exactly when that list is empty.
C5_AllChecksAccumulate ==
    \A i \in CallsOf("validate_shdf_document") :
        ~FailsCheck1(calls[i].arg)
        => /\ calls[i].ran = <<"validate_shdf", "validate_component_ids",
                               "validate_pin_names", "validate_breadboard_positions">>
           /\ Len(calls[i].results) = 4
           /\ calls[i].errors = calls[i].results[2].errors \o calls[i].results[3].errors
                                    \o calls[i].results[4].errors
           /\ calls[i].is_valid <=> (calls[i].errors = <<>>)
           /\ calls[i].is_valid <=> (\A k \in 2..4 : calls[i].results[k].is_valid)

\* C5 witness: a validation in which the ID check and the pin check found
\* errors and the breadboard check, run last, found errors too
C5_Witness ==
    \E i \in CallsOf("validate_shdf_document") :
        /\ ~FailsCheck1(calls[i].arg)
        /\ \A k \in 2..4 : ~calls[i].results[k].is_valid
        /\ Len(calls[i].errors) >= 3

\* the pin names and pin aliases of a canonical type, lower-cased
CatalogPinNames(type) ==
    {lower(n) : n \in CanonicalPins(type)}
        \cup (IF HasKey(PIN_NAME_ALIASES, type) THEN Keys(Get(PIN_NAME_ALIASES, type)) ELSE {})

\* the endpoints "<id>.<pin>" of declared components, not on the breadboard
DeclaredPinEndpoints(doc) ==
    SelectSeq(EndpointsOf(doc.connections, Len(doc.connections)),
        LAMBDA e : /\ ~startswith(e.endpoint, s_breadboard \o <<".">>)
                   /\ Contains(e.endpoint, <<".">>)
                   /\ \E k \in 1..Len(doc.components) :
                        doc.components[k].id = split1(e.endpoint, <<".">>)[1])

\* C6: validate_pin_names reports an error for a non-breadboard endpoint of a
\* declared component if and only if the pin suffix, case-insensitively, is
\* none of the pin names and pin aliases of the component's resolved type,
\* also when the type is written as an alias.
C6_PinNamesOfResolvedType ==
    \A i \in CallsOf("validate_shdf_document") :
        ~FailsCheck1(calls[i].arg)
        => LET doc == calls[i].arg
               endpoints == DeclaredPinEndpoints(doc)
               comp_types == CompTypes(doc.components, Len(doc.components))
           IN  \A k \in 1..Len(endpoints) :
                LET parts == split1(endpoints[k].endpoint, <<".">>)
                    resolved == shdf_alias_check(lower(Get(comp_types, parts[1])))
                IN  (\E n \in 1..Len(calls[i].results[3].errors) :
                        /\ calls[i].results[3].errors[n].i = endpoints[k].i
                        /\ calls[i].results[3].errors[n].j = endpoints[k].j)
                    <=> lower(parts[2]) \notin CatalogPinNames(resolved)

\* the endpoints that are not breadboard addresses and whose component-id
\* prefix is not a declared id
DanglingEndpoints(doc) ==
    SelectSeq(EndpointsOf(doc.connections, Len(doc.connections)),
        LAMBDA e : /\ split1(e.endpoint, <<".">>)[1] /= s_breadboard
                   /\ \A k \in 1..Len(doc.components) :
                        doc.components[k].id /= split1(e.endpoint, <<".">>)[1])

UnresolvedComponents(doc) ==
    SelectSeq(doc.components, LAMBDA c : ~HasKey(SHDF_TYPE_ALIASES, c.type))

\* C9: in convert_standard_to_wokwi a component whose type cannot be resolved
\* is left out of the parts, and the conversion returns a document with all
\* other components, without raising, also when a connection names the
\* unresolved component.
C9_UnresolvedComponentSkipped ==
    \A i \in CallsOf("convert_standard_to_wokwi") :
        ( /\ UnresolvedComponents(calls[i].arg) /= <<>>
          /\ \A k \in 1..Len(calls[i].arg.connections) : Len(calls[i].arg.connections[k]) = 2 )
        => /\ ~calls[i].raised
           /\ Len(calls[i].ret.parts)
                = Len(calls[i].arg.components) - Len(UnresolvedComponents(calls[i].arg))

----------------------------------------------------------------------------
(* The calls on single endpoints and pins                                  *)

Rails ==
    {<<"t", "p">>, <<"t", "n">>, <<"b", "p">>, <<"b", "n">>}

\* the half of the breadboard a row is on: a-e top, f-j bottom
SideOfRow(row) ==
    IF row \in {"a", "b", "c", "d", "e"} THEN "t" ELSE "b"

\* Wokwi addresses of the strip cells and rail positions of the breadboard
WokwiStripCells ==
    {s_breadboard \o <<":">> \o str(col) \o <<SideOfRow(row), ".", row>> :
        col \in 1..MaxColumn, row \in RowLetters}

WokwiRailPositions ==
    {s_breadboard \o <<":">> \o rail \o <<".">> \o str(col) :
        rail \in Rails, col \in 1..MaxColumn}

\* SHDF addresses "breadboard.<column><row>"
ShdfStripCells ==
    {s_breadboard \o <<".">> \o str(col) \o <<row>> :
        col \in 1..MaxColumn, row \in RowLetters}

\* SHDF addresses "breadboard.<rail>.<column>"
ShdfRailPositions ==
    {s_breadboard \o <<".">> \o rail \o <<".">> \o str(col) :
        rail \in Rails, col \in 1..MaxColumn}

\* addresses outside the board and the other notations an SHDF document may use
OtherShdfPoints ==
    {s_breadboard \o <<".">> \o str(col) \o <<row>> :
        col \in {0, MaxColumn + 1}, row \in RowLetters}
    \cup {s_breadboard \o <<".">> \o rail \o <<".">> \o str(MaxColumn + 1) : rail \in Rails}
    \cup {s_breadboard \o <<".">> \o s_pin \o str(col) \o <<SideOfRow(row), ".", row>> :
            col \in {0, 1, MaxColumn, MaxColumn + 1}, row \in {"a", "j"}}
    \cup {s_breadboard \o <<".">> \o str(col) \o rail : col \in {1, MaxColumn}, rail \in Rails}
    \cup {s_breadboard \o <<".">> \o <<"1", "0", "k">>, s_breadboard \o <<".">> \o <<"t", "p">>}

\* arguments of wokwi_to_shdf_pin: component id and Wokwi pin
WokwiPinArgs ==
    {[kind |-> "wokwi_pin", component_id |-> id, pin |-> pin] :
        id \in {<<"l", "e", "d", "1">>, <<"u", "n", "o">>, <<"r", "1">>, <<"f", "o", "o", "2">>},
        pin \in {<<"A">>, <<"a">>, <<"1", "3">>, <<"Z">>}}

\* arguments of shdf_to_wokwi_pin: SHDF pin and component type
ShdfPinArgs ==
    {[kind |-> "shdf_pin", pin |-> pin, type |-> type] :
        pin \in {<<"a", "n", "o", "d", "e">>, <<"A">>, <<"p", "i", "n", "1", "3">>, <<"z", "z">>},
        type \in {<<"l", "e", "d">>, <<"L", "E", "D">>, <<"a", "r", "d", "u", "i", "n", "o">>, <<"f", "o", "o">>}}

PointArgs ==
    {[kind |-> "wokwi_point", s |-> s] : s \in WokwiStripCells \cup WokwiRailPositions}
    \cup {[kind |-> "shdf_point", s |-> s] :
            s \in ShdfStripCells \cup ShdfRailPositions \cup OtherShdfPoints}
    \cup WokwiPinArgs \cup ShdfPinArgs

PointInit ==
    /\ TablesLoaded(ModuleInfo)
    /\ calls = <<>>
    /\ standard_diagram = NoDoc
    /\ wokwi_diagram = NoDoc
    /\ metric_diagram = NoDoc
    /\ metric_reference = NoDoc
    /\ metric_project_path = None
    /\ point \in PointArgs

\* point = _convert_connection_point(point, mode)
ConvertConnectionPoint(mode) ==
    /\ point.kind = "wokwi_point"
    /\ Len(calls) < MaxCalls
    /\ LET r == _convert_connection_point(point.s, mode)
       IN  /\ point' = IF r.raised \/ r.val = None THEN NoArg
                        ELSE [kind |-> "shdf_point", s |-> r.val]
           /\ calls' = Append(calls,
                [fn |-> "_convert_connection_point", arg |-> point.s, mode |-> mode,
                 raised |-> r.raised, ret |-> IF r.raised THEN None ELSE r.val])
    /\ UNCHANGED <<tables, metric_diagram, metric_reference, metric_project_path, standard_diagram, wokwi_diagram>>

\* point = _convert_to_wokwi_point(point, {})
ConvertToWokwiPoint ==
    /\ point.kind = "shdf_point"
    /\ Len(calls) < MaxCalls
    /\ LET r == _convert_to_wokwi_point(point.s, <<>>)
       IN  /\ point' = IF r.raised THEN NoArg ELSE [kind |-> "wokwi_point", s |-> r.val]
           /\ calls' = Append(calls,
                [fn |-> "_convert_to_wokwi_point", arg |-> point.s,
                 raised |-> r.raised, ret |-> IF r.raised THEN None ELSE r.val])
    /\ UNCHANGED <<tables, metric_diagram, metric_reference, metric_project_path, standard_diagram, wokwi_diagram>>

\* validate_breadboard_positions on a document whose one connection joins the
\* point and a component pin
ValidateBreadboardPositions ==
    /\ point.kind = "shdf_point"
    /\ Len(calls) < MaxCalls
    /\ LET r == validate_breadboard_positions(
                    [components |-> <<>>, connections |-> <<<<point.s, <<"l", "e", "d", "1", ".", "a">>>>>>])
       IN  calls' = Append(calls,
                [fn |-> "validate_breadboard_positions", arg |-> point.s,
                 raised |-> FALSE, is_valid |-> r.is_valid, errors |-> r.errors])
    /\ UNCHANGED <<tables, metric_diagram, metric_reference, metric_project_path, standard_diagram, wokwi_diagram, point>>

\* wokwi_to_shdf_pin(component_id, wokwi_pin)
WokwiToShdfPin ==
    /\ point.kind = "wokwi_pin"
    /\ Len(calls) < MaxCalls
    /\ LET r == wokwi_to_shdf_pin(point.component_id, point.pin)
       IN  calls' = Append(calls,
                [fn |-> "wokwi_to_shdf_pin", component_id |-> point.component_id,
                 pin |-> point.pin, raised |-> r.raised,
                 ret |-> IF r.raised THEN None ELSE r.val])
    /\ UNCHANGED <<tables, metric_diagram, metric_reference, metric_project_path, standard_diagram, wokwi_diagram, point>>

\* shdf_to_wokwi_pin(shdf_pin, shdf_component_type)
ShdfToWokwiPin ==
    /\ point.kind = "shdf_pin"
    /\ Len(calls) < MaxCalls
    /\ LET r == shdf_to_wokwi_pin(point.pin, point.type)
       IN  calls' = Append(calls,
                [fn |-> "shdf_to_wokwi_pin", pin |-> point.pin, type |-> point.type,
                 raised |-> r.raised, ret |-> IF r.raised THEN None ELSE r.val])
    /\ UNCHANGED <<tables, metric_diagram, metric_reference, metric_project_path, standard_diagram, wokwi_diagram, point>>

PointNext ==
    \/ \E mode \in Modes : ConvertConnectionPoint(mode)
    \/ ConvertToWokwiPoint
    \/ ValidateBreadboardPositions
    \/ WokwiToShdfPin
    \/ ShdfToWokwiPin

SpecPoint ==
    PointInit /\ [][PointNext]_vars

----------------------------------------------------------------------------
(* Properties of the calls on single endpoints and pins                    *)

\* C2: for every valid breadboard address (strip cells with column 1..60 and
\* row a..j, positions on the four rails, in either format's notation),
\* translating simulator -> neutral -> simulator returns the address
\* unchanged, and so does translating neutral -> simulator -> neutral.
C2_AddressRoundTrip ==
    \A i \in 1..(Len(calls) - 1) :
        /\ ( /\ calls[i].fn = "_convert_connection_point"
              /\ calls[i].mode = "physical"
              /\ calls[i + 1].fn = "_convert_to_wokwi_point"
              /\ calls[i].arg \in WokwiStripCells \cup WokwiRailPositions )
            => (~calls[i + 1].raised /\ calls[i + 1].ret = calls[i].arg)
        /\ ( /\ calls[i].fn = "_convert_to_wokwi_point"
              /\ calls[i + 1].fn = "_convert_connection_point"
              /\ calls[i + 1].mode = "physical"
              /\ calls[i].arg \in ShdfStripCells \cup ShdfRailPositions )
            => (~calls[i + 1].raised /\ calls[i + 1].ret = calls[i].arg)

\* the digits of the column of a "breadboard.bn.<column>" address
BnRailColumn(endpoint) ==
    SubSeq(endpoint, Len(s_breadboard) + 5, Len(endpoint))

\* the address matches one of the three grammars and its column is in 1..60
AddressInRange(endpoint) ==
    \/ MatchStripCell(endpoint) /= <<>> /\ int(MatchStripCell(endpoint)) \in 1..MaxColumn
    \/ MatchPinCell(endpoint) /= <<>> /\ int(MatchPinCell(endpoint)) \in 1..MaxColumn
    \/ MatchBnRail(endpoint) /\ int(BnRailColumn(endpoint)) \in 1..MaxColumn

\* C8: validate_breadboard_positions accepts a breadboard endpoint if and
\* only if it matches one of the three address grammars and, in every grammar
\* with a column number (strip cell and rail forms), the column is in 1..60;
\* a rail address with a column above 60 is rejected.
C8_ColumnRange ==
    \A i \in CallsOf("validate_breadboard_positions") :
        calls[i].is_valid <=> AddressInRange(calls[i].arg)

\* wokwi_to_shdf_pin has no mapping for the pin of the component id
NoShdfPinFor(component_id, wokwi_pin) ==
    LET type == lower(strip_trailing_number(component_id))
    IN  \/ ~HasKey(COMPONENT_TYPE_ALIASES, type)
        \/ ~HasKey(PIN_MAPPINGS, Get(COMPONENT_TYPE_ALIASES, type))
        \/ /\ ~HasKey(Get(PIN_MAPPINGS, Get(COMPONENT_TYPE_ALIASES, type)), wokwi_pin)
           /\ ~HasKey(Get(PIN_MAPPINGS, Get(COMPONENT_TYPE_ALIASES, type)), lower(wokwi_pin))

\* shdf_to_wokwi_pin has no mapping or alias for the pin of the type
NoWokwiPinFor(shdf_pin, type) ==
    \/ ~HasKey(COMPONENT_TYPE_ALIASES, lower(type))
    \/ ~HasKey(Get(PIN_NAME_ALIASES, Get(COMPONENT_TYPE_ALIASES, lower(type))), lower(shdf_pin))

\* C10: when the component type (or the type derived from the component id)
\* or the pin name has no mapping or alias, wokwi_to_shdf_pin and
\* shdf_to_wokwi_pin return the pin string they were given and do not raise.
C10_PinFailureNonFatal ==
    /\ \A i \in CallsOf("wokwi_to_shdf_pin") :
            NoShdfPinFor(calls[i].component_id, calls[i].pin)
            => (~calls[i].raised /\ calls[i].ret = calls[i].pin)
    /\ \A i \in CallsOf("shdf_to_wokwi_pin") :
            NoWokwiPinFor(calls[i].pin, calls[i].type)
            => (~calls[i].raised /\ calls[i].ret = calls[i].pin)

----------------------------------------------------------------------------
(* evaluation/hardware_metrics.py: check_component_attrs                   *)

s_led ==
    <<"l", "e", "d">>

\* reference_components after the loop over the reference components
RECURSIVE reference_components_of(_, _)
reference_components_of(components, check_led_color) ==
    IF components = <<>> THEN <<>>
    ELSE LET n == Len(components)
             comp == components[n]
             comp_id == FieldOr(comp, "id", <<>>)
             comp_type == lower(FieldOr(comp, "type", <<>>))
             attrs == FieldOr(comp, "attrs", FieldOr(comp, "properties", <<>>))
             Stored(before) ==
                 IF Contains(comp_type, s_resistor) /\ HasKey(attrs, "value")
                 THEN Put(before, comp_id,
                          [type |-> s_resistor, value |-> Get(attrs, "value")])
                 ELSE IF check_led_color /\ Contains(comp_type, s_led)
                         /\ HasKey(attrs, "color")
                 THEN Put(before, comp_id,
                          [type |-> s_led, color |-> Get(attrs, "color")])
                 ELSE before
         IN  Stored(reference_components_of(SubSeq(components, 1, n - 1), check_led_color))

\* incorrect_attrs_list after the loop over the generated components
RECURSIVE incorrect_attrs_list_of(_, _, _)
incorrect_attrs_list_of(components, reference_components, check_led_color) ==
    IF components = <<>> THEN <<>>
    ELSE LET n == Len(components)
             comp == components[n]
             comp_id == FieldOr(comp, "id", <<>>)
             comp_type == lower(FieldOr(comp, "type", <<>>))
             attrs == FieldOr(comp, "attrs", FieldOr(comp, "properties", <<>>))
             \* str(value).lower().replace("ohm", "").replace("ω", "")
             \*     .replace("Ω", "").strip(); <<"omega">> is the string "ω"
             value_norm(value) ==
                 strip(replace(replace(replace(lower(value), s_ohm, <<>>),
                                       <<"omega">>, <<>>), s_omega, <<>>))
             Checked(before) ==
                 IF Contains(comp_type, s_resistor)
                    /\ HasKey(reference_components, comp_id)
                    /\ Get(reference_components, comp_id).type = s_resistor
                 THEN LET ref_value == Get(reference_components, comp_id).value
                          gen_value == IF HasKey(attrs, "value")
                                       THEN Get(attrs, "value") ELSE <<>>
                      IN  IF value_norm(gen_value) /= value_norm(ref_value)
                          THEN Append(before,
                                 [component_id |-> comp_id, component_type |-> s_resistor,
                                  attribute |-> "value", generated_value |-> gen_value,
                                  reference_value |-> ref_value])
                          ELSE before
                 ELSE IF check_led_color /\ Contains(comp_type, s_led)
                         /\ HasKey(reference_components, comp_id)
                         /\ Get(reference_components, comp_id).type = s_led
                 THEN LET ref_color == Get(reference_components, comp_id).color
                          gen_color == IF HasKey(attrs, "color")
                                       THEN Get(attrs, "color") ELSE <<>>
                      IN  IF strip(lower(gen_color)) /= strip(lower(ref_color))
                          THEN Append(before,
                                 [component_id |-> comp_id, component_type |-> s_led,
                                  attribute |-> "color", generated_value |-> gen_color,
                                  reference_value |-> ref_color])
                          ELSE before
                 ELSE before
         IN  Checked(incorrect_attrs_list_of(SubSeq(components, 1, n - 1),
                                             reference_components, check_led_color))

\* a comparison that checks the LED colours for every project
check_component_attrs_every_project(generated_diagram, reference_diagram, project_path) ==
    LET Results(incorrect_attrs_list) ==
            [incorrect_attrs |-> Len(incorrect_attrs_list),
             incorrect_attrs_list |-> incorrect_attrs_list]
    IN  Results(incorrect_attrs_list_of(
                    FieldOr(generated_diagram, "components", <<>>),
                    reference_components_of(FieldOr(reference_diagram, "components", <<>>),
                                            TRUE),
                    TRUE))

\* check_component_attrs(generated_diagram, reference_diagram, project_path)
check_component_attrs(generated_diagram, reference_diagram, project_path) ==
    LET check_led_color ==
            project_path /= None /\ Contains(project_path, <<"t", "r", "a", "f", "f", "i", "c", "_", "l", "i", "g", "h", "t">>)
        Results(incorrect_attrs_list) ==
            [incorrect_attrs |-> Len(incorrect_attrs_list),
             incorrect_attrs_list |-> incorrect_attrs_list]
    IN  Results(incorrect_attrs_list_of(
                    FieldOr(generated_diagram, "components", <<>>),
                    reference_components_of(FieldOr(reference_diagram, "components", <<>>),
                                            check_led_color),
                    check_led_color))


----------------------------------------------------------------------------
(* evaluation/hardware_metrics.py: the structural metrics                  *)

\* connection[:2]
first_two(connection) ==
    SubSeq(connection, 1, IF Len(connection) < 2 THEN Len(connection) ELSE 2)

\* a pair of endpoints taken in the order of the connection
unsorted(endpoints) ==
    endpoints

\* tuple(sorted(endpoints)) for at most two endpoints: str is ordered
\* character by character by code point, a proper prefix first
sorted(endpoints) ==
    LET Punctuation ==
            <<<<" ", 32>>, <<"!", 33>>, <<"#", 35>>, <<"$", 36>>, <<"%", 37>>, <<"&", 38>>,
              <<"'", 39>>, <<"+", 43>>, <<",", 44>>, <<"-", 45>>, <<".", 46>>, <<"/", 47>>,
              <<":", 58>>, <<";", 59>>, <<"=", 61>>, <<"?", 63>>, <<"@", 64>>, <<"_", 95>>,
              <<"~", 126>>>>
        ord(c) ==
            IF IsDigitChar(c) THEN 48 + (CHOOSE d \in 0..9 : str(d) = <<c>>)
            ELSE IF \E i \in 1..26 : UpperLetters[i] = c
            THEN 64 + (CHOOSE i \in 1..26 : UpperLetters[i] = c)
            ELSE IF \E i \in 1..26 : LowerLetters[i] = c
            THEN 96 + (CHOOSE i \in 1..26 : LowerLetters[i] = c)
            ELSE IF c = "Omega" THEN 937
            ELSE IF c = "omega" THEN 969
            ELSE Get(Punctuation, c)
        RECURSIVE str_lt(_, _)
        str_lt(a, b) ==
            IF b = <<>> THEN FALSE
            ELSE IF a = <<>> THEN TRUE
            ELSE IF a[1] = b[1] THEN str_lt(Tail(a), Tail(b))
            ELSE ord(a[1]) < ord(b[1])
    IN  IF Len(endpoints) = 2 /\ str_lt(endpoints[2], endpoints[1])
        THEN <<endpoints[2], endpoints[1]>>
        ELSE endpoints

\* unique_connections and duplicate_connection_list after the first n connections
RECURSIVE duplicate_scan(_, _)
duplicate_scan(connections, n) ==
    IF n = 0 THEN [unique_connections |-> {}, duplicate_connection_list |-> <<>>]
    ELSE LET connection == connections[n]
             conn_pair == sorted(first_two(connection))
             Step(before) ==
                 IF conn_pair \in before.unique_connections
                 THEN [before EXCEPT !.duplicate_connection_list =
                            Append(@, [index |-> n - 1, connection |-> connection])]
                 ELSE [before EXCEPT !.unique_connections = @ \cup {conn_pair}]
         IN  Step(duplicate_scan(connections, n - 1))

check_duplicate_connections(diagram) ==
    LET connections == FieldOr(diagram, "connections", <<>>)
        Results(scan) ==
            [duplicate_connections |-> Len(scan.duplicate_connection_list),
             duplicate_connection_list |-> scan.duplicate_connection_list]
    IN  Results(duplicate_scan(connections, Len(connections)))

\* endpoint_usage after the first n connections
RECURSIVE endpoint_usage_of(_, _)
endpoint_usage_of(connections, n) ==
    IF n = 0 THEN <<>>
    ELSE LET endpoints == first_two(connections[n])
             Used(usage, endpoint) ==
                 IF HasKey(usage, endpoint)
                 THEN Put(usage, endpoint, Append(Get(usage, endpoint), n - 1))
                 ELSE Put(usage, endpoint, <<n - 1>>)
             Step(before) ==
                 IF Len(endpoints) = 0 THEN before
                 ELSE IF Len(endpoints) = 1 THEN Used(before, endpoints[1])
                 ELSE Used(Used(before, endpoints[1]), endpoints[2])
         IN  Step(endpoint_usage_of(connections, n - 1))

\* the loop over endpoint_usage.items() keeps the endpoints with more than
\* one index
check_endpoint_conflicts(diagram) ==
    LET connections == FieldOr(diagram, "connections", <<>>)
        Results(multiple) ==
            [endpoint_conflicts |-> Len(multiple),
             conflict_endpoints |->
                [k \in 1..Len(multiple) |->
                    [endpoint |-> multiple[k][1],
                     connection_indices |-> multiple[k][2],
                     connection_count |-> Len(multiple[k][2])]]]
    IN  Results(SelectSeq(endpoint_usage_of(connections, Len(connections)),
                          LAMBDA item : Len(item[2]) > 1))

\* the component ids used by the first endpoints of the connections
used_component_ids_of_first(connections) ==
    {split1(connections[k][1], <<".">>)[1] :
        k \in {k \in 1..Len(connections) :
                    /\ 1 <= Len(connections[k])
                    /\ Contains(connections[k][1], <<".">>)}}

\* used_component_ids after the loop over the connections
used_component_ids_of(connections) ==
    {split1(connections[k][j], <<".">>)[1] :
        <<k, j>> \in {<<k, j>> \in (1..Len(connections)) \X (1..2) :
                        /\ j <= Len(connections[k])
                        /\ Contains(connections[k][j], <<".">>)}}

check_unused_components(diagram) ==
    LET components == FieldOr(diagram, "components", <<>>)
        all_component_ids == {components[k].id : k \in 1..Len(components)}
        unused_ids == all_component_ids
                        \ used_component_ids_of(FieldOr(diagram, "connections", <<>>))
        unused_component_list == SelectSeq(components, LAMBDA comp : comp.id \in unused_ids)
    IN  [unused_components |-> Cardinality(unused_ids),
         unused_component_list |-> unused_component_list]

\* the type the components are counted under
counted_type_as_written(comp) ==
    FieldOr(comp, "type", <<>>)

\* comp.get("type", "").lower()
counted_type(comp) ==
    lower(FieldOr(comp, "type", <<>>))

\* the dict of component counts per type after the loop over the components
RECURSIVE count_types(_)
count_types(components) ==
    IF components = <<>> THEN <<>>
    ELSE LET n == Len(components)
             comp_type == counted_type(components[n])
             Counted(before) ==
                 IF HasKey(before, comp_type)
                 THEN Put(before, comp_type, Get(before, comp_type) + 1)
                 ELSE Put(before, comp_type, 1)
         IN  Counted(count_types(SubSeq(components, 1, n - 1)))

compare_with_reference(generated_diagram, reference_diagram) ==
    LET reference_components == count_types(FieldOr(reference_diagram, "components", <<>>))
        generated_components == count_types(FieldOr(generated_diagram, "components", <<>>))
        \* results[...] += count over a list: the sum of the counts
        RECURSIVE sum(_)
        sum(numbers) ==
            IF numbers = <<>> THEN 0
            ELSE numbers[1] + sum(Tail(numbers))
        \* counts.get(comp_type, 0)
        count_or_zero(counts, comp_type) ==
            IF HasKey(counts, comp_type) THEN Get(counts, comp_type) ELSE 0
        more_generated ==
            SelectSeq(generated_components,
                LAMBDA item : item[2] > count_or_zero(reference_components, item[1]))
        more_reference ==
            SelectSeq(reference_components,
                LAMBDA item : item[2] > count_or_zero(generated_components, item[1]))
        unnecessary_component_list ==
            [k \in 1..Len(more_generated) |->
                [type |-> more_generated[k][1],
                 extra_count |-> more_generated[k][2]
                                   - count_or_zero(reference_components, more_generated[k][1]),
                 generated_count |-> more_generated[k][2],
                 reference_count |-> count_or_zero(reference_components, more_generated[k][1])]]
        missing_component_list ==
            [k \in 1..Len(more_reference) |->
                [type |-> more_reference[k][1],
                 missing_count |-> more_reference[k][2]
                                     - count_or_zero(generated_components, more_reference[k][1]),
                 generated_count |-> count_or_zero(generated_components, more_reference[k][1]),
                 reference_count |-> more_reference[k][2]]]
    IN  [unnecessary_components |->
            sum([k \in 1..Len(unnecessary_component_list) |->
                    unnecessary_component_list[k].extra_count]),
         unnecessary_component_list |-> unnecessary_component_list,
         missing_components |->
            sum([k \in 1..Len(missing_component_list) |->
                    missing_component_list[k].missing_count]),
         missing_component_list |-> missing_component_list]

\* every endpoint of the connection is on the breadboard
has_breadboard_all(connection) ==
    \A j \in 1..Len(first_two(connection)) : startswith(connection[j], s_breadboard)

\* any(endpoint.startswith("breadboard") for endpoint in connection[:2])
has_breadboard(connection) ==
    \E j \in 1..Len(first_two(connection)) : startswith(connection[j], s_breadboard)

\* a percentage (count / total) * 100 is the fraction num / den; the rounding
\* of the two float operations is not modelled
check_direct_connections(diagram) ==
    LET connections == FieldOr(diagram, "connections", <<>>)
        indexed == [k \in 1..Len(connections) |->
                        [index |-> k - 1, connection |-> connections[k]]]
        direct_connection_list ==
            SelectSeq(indexed, LAMBDA item : ~has_breadboard(item.connection))
        breadboard_connections ==
            Len(SelectSeq(indexed, LAMBDA item : has_breadboard(item.connection)))
        total_connections == Len(connections)
    IN  [direct_connections |-> Len(direct_connection_list),
         breadboard_connections |-> breadboard_connections,
         direct_connection_list |-> direct_connection_list,
         total_connections |-> total_connections,
         direct_connection_percentage |->
            IF total_connections > 0
            THEN [num |-> Len(direct_connection_list) * 100, den |-> total_connections]
            ELSE [num |-> 0, den |-> 1],
         breadboard_connection_percentage |->
            IF total_connections > 0
            THEN [num |-> breadboard_connections * 100, den |-> total_connections]
            ELSE [num |-> 0, den |-> 1]]

\* an evaluation that runs the two physical checks in every mode
evaluate_hardware_design_every_mode(diagram, reference_diagram, mode, project_path) ==
    [mode |-> mode,
     metrics |->
        [k \in {"duplicate_connections", "unused_components", "endpoint_conflicts",
                "direct_connections"} |->
            CASE k = "duplicate_connections" -> check_duplicate_connections(diagram)
              [] k = "unused_components" -> check_unused_components(diagram)
              [] k = "endpoint_conflicts" -> check_endpoint_conflicts(diagram)
              [] k = "direct_connections" -> check_direct_connections(diagram)]]

\* evaluate_hardware_design(diagram, reference_diagram, mode, project_path);
\* reference_diagram is NoDoc for None
evaluate_hardware_design(diagram, reference_diagram, mode, project_path) ==
    LET with_reference == IsDoc(reference_diagram) /\ DOMAIN reference_diagram /= {}
        keys == {"duplicate_connections", "unused_components"}
                \cup (IF mode = "physical"
                      THEN {"endpoint_conflicts", "direct_connections"} ELSE {})
                \cup (IF with_reference
                      THEN {"unnecessary_components", "missing_components", "component_attrs"}
                      ELSE {})
    IN  [mode |-> mode,
         metrics |->
            [k \in keys |->
                CASE k = "duplicate_connections" -> check_duplicate_connections(diagram)
                  [] k = "unused_components" -> check_unused_components(diagram)
                  [] k = "endpoint_conflicts" -> check_endpoint_conflicts(diagram)
                  [] k = "direct_connections" -> check_direct_connections(diagram)
                  [] k \in {"unnecessary_components", "missing_components"} ->
                        compare_with_reference(diagram, reference_diagram)
                  [] k = "component_attrs" ->
                        check_component_attrs(diagram, reference_diagram, project_path)]]

----------------------------------------------------------------------------
(* The evaluation of documents                                             *)

\* the largest number of connections of an evaluated document
MaxEvaluated ==
    3

\* components of the evaluated documents: an LED, a resistor, a second
\* declaration of the resistor's id, a board
MetricComponentPool ==
    <<[id |-> <<"l", "e", "d", "1">>, type |-> s_led],
      [id |-> <<"r", "1">>, type |-> s_resistor],
      [id |-> <<"r", "1">>, type |-> s_resistor],
      [id |-> <<"u", "n", "o">>, type |-> s_arduino_uno]>>

\* connections of the evaluated documents: a pin pair, the same pair with
\* the endpoints swapped, a pin of an undeclared component, one pin on both
\* sides, a breadboard cell and a pin, two breadboard addresses, the first
\* pair again
MetricConnectionPool ==
    <<<<<<"l", "e", "d", "1", ".", "a", "n", "o", "d", "e">>, <<"r", "1", ".", "p", "i", "n", "1">>>>,
      <<<<"r", "1", ".", "p", "i", "n", "1">>, <<"l", "e", "d", "1", ".", "a", "n", "o", "d", "e">>>>,
      <<<<"l", "e", "d", "1", ".", "a", "n", "o", "d", "e">>, <<"a", "r", "d", "u", "i", "n", "o", "1", ".", "p", "i", "n", "1", "3">>>>,
      <<<<"l", "e", "d", "1", ".", "a", "n", "o", "d", "e">>, <<"l", "e", "d", "1", ".", "a", "n", "o", "d", "e">>>>,
      <<<<"b", "r", "e", "a", "d", "b", "o", "a", "r", "d", ".", "1", "0", "a">>, <<"l", "e", "d", "1", ".", "a", "n", "o", "d", "e">>>>,
      <<<<"b", "r", "e", "a", "d", "b", "o", "a", "r", "d", ".", "1", "0", "a">>, <<"b", "r", "e", "a", "d", "b", "o", "a", "r", "d", ".", "b", "n", ".", "1", "8">>>>,
      <<<<"l", "e", "d", "1", ".", "a", "n", "o", "d", "e">>, <<"r", "1", ".", "p", "i", "n", "1">>>>>>

\* components of the compared documents: types in lower and mixed case and a
\* component without a type
CompareComponentPool ==
    <<[id |-> <<"l", "e", "d", "1">>, type |-> s_led],
      [id |-> <<"l", "e", "d", "2">>, type |-> <<"L", "E", "D">>],
      [id |-> <<"r", "1">>, type |-> s_resistor],
      [id |-> <<"r", "2">>, type |-> <<"R", "e", "s", "i", "s", "t", "o", "r">>],
      [id |-> <<"x", "1">>]>>

\* a document is evaluated without a reference, or a document without
\* connections is compared with a reference, or a document whose components
\* carry attributes is compared with a reference for a project: resistors
\* with a value under properties or attrs or with none, LEDs with a colour
\* or with none, a board with a value
MetricsInit ==
    LET AttrComponentPool ==
            <<[id |-> <<"r", "1">>, type |-> s_resistor, properties |-> <<<<"value", <<"3", "3", "0">>>>>>],
              [id |-> <<"r", "1">>, type |-> <<"R", "e", "s", "i", "s", "t", "o", "r">>, attrs |-> <<<<"value", <<"2", "2", "0", " ", "O", "h", "m">>>>>>],
              [id |-> <<"r", "1">>, type |-> s_resistor],
              [id |-> <<"l", "e", "d", "1">>, type |-> s_led, properties |-> <<<<"color", <<"r", "e", "d">>>>>>],
              [id |-> <<"l", "e", "d", "1">>, type |-> <<"L", "E", "D">>, attrs |-> <<<<"color", <<" ", "G", "r", "e", "e", "n">>>>>>],
              [id |-> <<"l", "e", "d", "1">>, type |-> s_led, properties |-> <<>>],
              [id |-> <<"u", "n", "o">>, type |-> s_arduino_uno, properties |-> <<<<"value", <<"5">>>>>>]>>
        AttrReferencePool ==
            <<[id |-> <<"r", "1">>, type |-> s_resistor, properties |-> <<<<"value", <<"2", "2", "0", " ", "o", "h", "m">>>>>>],
              [id |-> <<"r", "1">>, type |-> s_resistor],
              [id |-> <<"l", "e", "d", "1">>, type |-> s_led, attrs |-> <<<<"color", <<"R", "E", "D", " ">>>>>>],
              [id |-> <<"u", "n", "o">>, type |-> s_arduino_uno, properties |-> <<<<"value", <<"9">>>>>>]>>
        ProjectPaths ==
            {<<"p", "r", "o", "j", "e", "c", "t", "s", "/", "t", "r", "a", "f", "f", "i", "c", "_", "l", "i", "g", "h", "t">>, <<"p", "r", "o", "j", "e", "c", "t", "s", "/", "l", "e", "d", "_", "b", "l", "i", "n", "k">>}
        MetricDocs ==
            {[components |-> cs, connections |-> ks] :
                cs \in SubSeqsUpTo(MetricComponentPool, MaxComponents),
                ks \in SubSeqsUpTo(MetricConnectionPool, MaxEvaluated)}
        CompareDocs ==
            {[components |-> cs, connections |-> <<>>] :
                cs \in SubSeqsUpTo(CompareComponentPool, MaxComponents)}
    IN  /\ TablesLoaded(ModuleInfo)
        /\ calls = <<>>
        /\ point = NoArg
        /\ standard_diagram = NoDoc
        /\ wokwi_diagram = NoDoc
        /\ \/ /\ metric_diagram \in MetricDocs
              /\ metric_reference = NoDoc
              /\ metric_project_path = None
           \/ /\ metric_diagram \in CompareDocs
              /\ metric_reference \in CompareDocs
              /\ metric_project_path = None
           \/ /\ metric_diagram \in
                    {[components |-> cs, connections |-> <<>>] :
                        cs \in SubSeqsUpTo(AttrComponentPool, MaxComponents)}
              /\ metric_reference \in
                    {[components |-> cs, connections |-> <<>>] :
                        cs \in SubSeqsUpTo(AttrReferencePool, MaxComponents)}
              /\ metric_project_path \in ProjectPaths

\* evaluate_hardware_design(metric_diagram, metric_reference, mode,
\* metric_project_path)
EvaluateHardwareDesign(mode) ==
    /\ IsDoc(metric_diagram)
    /\ Len(calls) < MaxCalls
    /\ calls' = Append(calls,
            [fn |-> "evaluate_hardware_design", arg |-> metric_diagram,
             reference |-> metric_reference, mode |-> mode,
             project_path |-> metric_project_path, raised |-> FALSE,
             ret |-> evaluate_hardware_design(metric_diagram, metric_reference, mode,
                                              metric_project_path)])
    /\ UNCHANGED <<tables, standard_diagram, wokwi_diagram, point, metric_diagram,
                   metric_reference, metric_project_path>>

SpecMetrics ==
    MetricsInit /\ [][\E mode \in Modes : EvaluateHardwareDesign(mode)]_vars

\* the results of one metric in the log, with the evaluated document, the
\* reference and the position of the call
MetricResults(metric) ==
    {[doc |-> calls[i].arg, reference |-> calls[i].reference,
      project_path |-> calls[i].project_path, i |-> i,
      results |-> calls[i].ret.metrics[metric]] :
        i \in {j \in CallsOf("evaluate_hardware_design") :
                    metric \in DOMAIN calls[j].ret.metrics}}

----------------------------------------------------------------------------
(* Resistor values through the converters and the attribute metric         *)

\* one resistor r1 with a value (bare digits, a unit, a k multiplier, a
\* decimal mantissa, no number, an omega unit, padding), alone or followed by
\* a colour and an unsupported key; r1 unconnected, connected by its two
\* pins, by a pin the catalog does not have, or to an undeclared component
ValueInit ==
    LET ResistorValues ==
            {<<"2", "2", "0">>, <<"1", "k", " ", "o", "h", "m">>, <<"4", ".", "7", "k">>, <<"a", "b", "c">>, <<"4", "7", "0", "0">>, <<"4", "7", "0", "0", " ", "o", "h", "m">>,
             <<"2", "2", "0", "Omega">>, <<" ", "3", "3", "0", " ">>}
        ResistorProperties ==
            {<<<<"value", v>>>> : v \in ResistorValues}
            \cup {<<<<"value", v>>, <<"color", <<"r", "e", "d">>>>, <<"tolerance", <<"5", "%">>>>>> :
                    v \in ResistorValues}
        ResistorConnections ==
            {<<>>,
             <<<<<<"r", "1", ".", "p", "i", "n", "1">>, <<"r", "1", ".", "p", "i", "n", "2">>>>>>,
             <<<<<<"r", "1", ".", "b", "o", "g", "u", "s">>, <<"r", "1", ".", "p", "i", "n", "1">>>>>>,
             <<<<<<"g", "h", "o", "s", "t", "1", ".", "p", "i", "n", "1">>, <<"r", "1", ".", "p", "i", "n", "1">>>>>>}
        ResistorDocs ==
            {[components |-> <<[id |-> <<"r", "1">>, type |-> s_resistor, properties |-> p]>>,
              connections |-> ks] : p \in ResistorProperties, ks \in ResistorConnections}
        ResistorReferenceDocs ==
            {[components |-> <<[id |-> <<"r", "1">>, type |-> s_resistor,
                                properties |-> <<<<"value", v>>>>]>>,
              connections |-> <<>>] : v \in ResistorValues}
        ResistorDiagrams ==
            {[version |-> 1,
              parts |-> <<[id |-> <<"r", "1">>, type |-> s_wokwi_resistor, top |-> 100,
                           left |-> 150, attrs |-> <<<<"value", v>>>>]>>,
              connections |-> ks] :
                v \in ResistorValues,
                ks \in {<<>>, <<<<<<"r", "1", ":", "1">>, <<"r", "1", ":", "2">>, "green", <<>>>>>>}}
    IN  /\ TablesLoaded(ModuleInfo)
        /\ calls = <<>>
        /\ point = NoArg
        /\ \/ /\ standard_diagram \in ResistorDocs
              /\ wokwi_diagram = NoDoc /\ metric_diagram = NoDoc /\ metric_reference = NoDoc
              /\ metric_project_path = None
           \/ /\ wokwi_diagram \in ResistorDiagrams
              /\ standard_diagram = NoDoc /\ metric_diagram = NoDoc /\ metric_reference = NoDoc
              /\ metric_project_path = None
           \/ /\ metric_diagram \in ResistorDocs
              /\ metric_reference \in ResistorReferenceDocs
              /\ standard_diagram = NoDoc /\ wokwi_diagram = NoDoc
              /\ metric_project_path = None

ValueNext ==
    \/ ValidateShdfDocument
    \/ \E mode \in Modes : ConvertStandardToWokwi(mode)
    \/ \E mode \in Modes : ConvertWokwiToStandard(mode)
    \/ \E mode \in Modes : EvaluateHardwareDesign(mode)

SpecValue ==
    ValueInit /\ [][ValueNext]_vars

\* the components of a document that are resistors with a value property
ResistorsWithValue(doc) ==
    {i \in 1..Len(doc.components) :
        /\ shdf_alias_check(FieldOr(doc.components[i], "type", None)) = s_resistor
        /\ "properties" \in DOMAIN doc.components[i]
        /\ HasKey(doc.components[i].properties, "value")}

\* the value is not a string of digits after removing "ohm", expanding "k"
\* and trimming
CoercionFails(value) ==
    ~isdigit(strip(replace(replace(value, s_ohm, <<>>), <<"k">>, s_000)))

\* the document has a resistor whose value cannot be coerced
HasCoercionFailure(doc) ==
    \E i \in ResistorsWithValue(doc) :
        CoercionFails(Get(doc.components[i].properties, "value"))

\* C11: convert_standard_to_wokwi raises and returns no document when a
\* resistor's value is not a string of digits after removing "ohm", expanding
\* "k" and trimming, and no other property or lookup problem makes it raise
C11_OnlyCoercionAborts ==
    \A i \in CallsOf("convert_standard_to_wokwi") :
        /\ HasCoercionFailure(calls[i].arg)
              => (calls[i].raised /\ calls[i].ret = NoDoc)
        /\ calls[i].raised => HasCoercionFailure(calls[i].arg)

\* the part of C11 about the coercion failure alone
C11_CoercionAborts ==
    \A i \in CallsOf("convert_standard_to_wokwi") :
        HasCoercionFailure(calls[i].arg)
            => (calls[i].raised /\ calls[i].ret = NoDoc)

\* a conversion of a document with a well-formed resistor value raised
C11_LookupAborts ==
    \E i \in CallsOf("convert_standard_to_wokwi") :
        ~HasCoercionFailure(calls[i].arg) /\ calls[i].raised

\* the values of the "value" entries in the dicts found under key (attrs or
\* properties) in a list of parts or components
StoredValues(items, key) ==
    {Get(items[i][key], "value") :
        i \in {j \in 1..Len(items) : key \in DOMAIN items[j] /\ HasKey(items[j][key], "value")}}

\* C12: a resistor value "4.7k" is stored by either converter as the bare
\* integer string "4700", and check_component_attrs reports no mismatch
\* between a generated value "4700" and a reference value "4700 ohm"
C12_ValueNormalization ==
    /\ \A i \in CallsOf("convert_standard_to_wokwi") :
            <<"4", ".", "7", "k">> \in StoredValues(calls[i].arg.components, "properties")
                => (~calls[i].raised
                    /\ StoredValues(calls[i].ret.parts, "attrs") = {<<"4", "7", "0", "0">>})
    /\ \A i \in CallsOf("convert_wokwi_to_standard") :
            <<"4", ".", "7", "k">> \in StoredValues(calls[i].arg.parts, "attrs")
                => (~calls[i].raised
                    /\ StoredValues(calls[i].ret.components, "properties") = {<<"4", "7", "0", "0">>})
    /\ \A m \in MetricResults("component_attrs") :
            (/\ StoredValues(m.doc.components, "properties") = {<<"4", "7", "0", "0">>}
             /\ StoredValues(m.reference.components, "properties") = {<<"4", "7", "0", "0", " ", "o", "h", "m">>})
                => m.results.incorrect_attrs = 0

\* the part of C12 about check_component_attrs alone
C12_ReferenceComparesEqual ==
    \A m \in MetricResults("component_attrs") :
        (/\ StoredValues(m.doc.components, "properties") = {<<"4", "7", "0", "0">>}
         /\ StoredValues(m.reference.components, "properties") = {<<"4", "7", "0", "0", " ", "o", "h", "m">>})
            => m.results.incorrect_attrs = 0

\* check_component_attrs compared a generated "4700" with a reference "4700 ohm"
C12_ReferenceCompared ==
    \E m \in MetricResults("component_attrs") :
        /\ StoredValues(m.doc.components, "properties") = {<<"4", "7", "0", "0">>}
        /\ StoredValues(m.reference.components, "properties") = {<<"4", "7", "0", "0", " ", "o", "h", "m">>}

----------------------------------------------------------------------------
(* The converters on an empty catalog                                      *)

\* module_info.json is missing or cannot be parsed: load_module_info
\* returns {} and the tables are built from no entry
EmptyInit ==
    /\ TablesLoaded(<<>>)
    /\ calls = <<>>
    /\ point = NoArg
    /\ metric_diagram = NoDoc
    /\ metric_reference = NoDoc
    /\ metric_project_path = None
    /\ \/ standard_diagram \in ShdfDocs /\ wokwi_diagram = NoDoc
       \/ standard_diagram = NoDoc /\ wokwi_diagram \in WokwiDocs

SpecEmpty ==
    EmptyInit /\ [][Next]_vars

\* an SHDF document of the data model: components with id and type,
\* connections of two endpoints, every endpoint on the breadboard or on a
\* declared component
WellFormedShdf(doc) ==
    HasSchemaShape(doc) /\ DanglingEndpoints(doc) = <<>>

\* a Wokwi diagram whose connections join endpoints on the breadboard or on
\* parts of the diagram
WellFormedWokwi(doc) ==
    \A k \in 1..Len(doc.connections) : \A j \in 1..2 :
        LET id == split1(doc.connections[k][j], <<":">>)[1]
        IN  id = s_breadboard \/ \E p \in 1..Len(doc.parts) : doc.parts[p].id = id

\* the converter calls in the log on well-formed documents
WellFormedConversions ==
    {i \in CallsOf("convert_standard_to_wokwi") : WellFormedShdf(calls[i].arg)}
    \cup {i \in CallsOf("convert_wokwi_to_standard") : WellFormedWokwi(calls[i].arg)}

\* C13: with an empty catalog both converters return a translated document
\* for every well-formed input document, also one with component-pin
\* endpoints, and none raises
C13_EmptyCatalogTranslates ==
    \A i \in WellFormedConversions :
        /\ TYPE_MAPPINGS = <<>> /\ PIN_MAPPINGS = <<>> /\ REVERSE_PIN_MAPPINGS = <<>>
        /\ ~calls[i].raised
        /\ IsDoc(calls[i].ret)

\* the part of C13 about documents without component-pin endpoints
C13_NoPinEndpointsTranslates ==
    \A i \in WellFormedConversions :
        (\A k \in 1..Len(calls[i].arg.connections) : \A j \in 1..2 :
            IsBreadboardPoint(calls[i].arg.connections[k][j]))
        => (~calls[i].raised /\ IsDoc(calls[i].ret))

----------------------------------------------------------------------------
(* The document passed to a call, after the call                           *)

\* the document the last call in the log was made on, as the caller holds it
\* after the call
ArgumentAfterLastCall ==
    IF calls[Len(calls)].fn = "convert_wokwi_to_standard"
    THEN wokwi_diagram ELSE standard_diagram

\* the pairs of successive calls of validate_shdf_document and
\* convert_standard_to_wokwi on the same SHDF document object
SuccessiveShdfCalls ==
    {i \in 1..(Len(calls) - 1) :
        {calls[i].fn, calls[i + 1].fn}
            \subseteq {"validate_shdf_document", "convert_standard_to_wokwi"}}

\* what the call logged at position i returned
ResultOf(i) ==
    IF calls[i].fn = "validate_shdf_document"
    THEN <<calls[i].is_valid, calls[i].errors>>
    ELSE <<calls[i].raised, calls[i].ret>>

\* what the function called at position i returns on the document doc
ResultOn(i, doc) ==
    IF calls[i].fn = "validate_shdf_document"
    THEN LET Returned(r) == <<r.is_valid, r.errors>>
         IN  Returned(validate_shdf_document(doc))
    ELSE LET Returned(r) == <<r.raised, IF r.raised THEN NoDoc ELSE r.val>>
         IN  Returned(convert_standard_to_wokwi(doc, calls[i].mode))

\* C14: validate_shdf_document, convert_wokwi_to_standard and
\* convert_standard_to_wokwi leave the document passed to them unchanged, so
\* a call made after other calls on the same document returns what it
\* returns on the original document
C14_ArgumentUnchanged ==
    /\ Len(calls) > 0 => ArgumentAfterLastCall = calls[Len(calls)].arg
    /\ \A i \in SuccessiveShdfCalls : ResultOf(i + 1) = ResultOn(i + 1, calls[i].arg)

\* a later call returned something else than it returns on the original document
C14_ResultChanged ==
    \E i \in SuccessiveShdfCalls : ResultOf(i + 1) /= ResultOn(i + 1, calls[i].arg)

\* the two endpoints of a connection as an unordered pair
UnorderedPair(connection) ==
    {connection[1], connection[2]}

\* the document with the endpoints of its k-th connection swapped
WithSwapped(doc, k) ==
    [doc EXCEPT !.connections[k] = <<@[2], @[1]>>]

\* the values of one field of the entries of a list
FieldsOf(list, field) ==
    [k \in 1..Len(list) |-> list[k][field]]

\* the list of numbers is strictly increasing
Increasing(numbers) ==
    \A k \in 1..(Len(numbers) - 1) : numbers[k] < numbers[k + 1]

\* C16: check_duplicate_connections flags connection i if and only if an
\* earlier connection has the same two endpoints as an unordered pair, each
\* flagged connection once; the count does not change when the endpoints of
\* any one connection are swapped.
C16_DuplicateConnections ==
    \A m \in MetricResults("duplicate_connections") :
        LET ks == m.doc.connections
            flagged == FieldsOf(m.results.duplicate_connection_list, "index")
        IN  /\ Range(flagged)
                = {i \in 0..(Len(ks) - 1) :
                     \E j \in 0..(i - 1) : UnorderedPair(ks[j + 1]) = UnorderedPair(ks[i + 1])}
            /\ Increasing(flagged)
            /\ m.results.duplicate_connections = Len(flagged)
            /\ \A k \in 1..Len(ks) :
                 check_duplicate_connections(WithSwapped(m.doc, k)).duplicate_connections
                    = m.results.duplicate_connections

\* C16 witness: [a.x, b.y] followed by [b.y, a.x] was evaluated and gave
\* exactly one duplicate, the second connection
C16_Witness ==
    \E m \in MetricResults("duplicate_connections") :
        /\ m.doc.connections = <<MetricConnectionPool[1], MetricConnectionPool[2]>>
        /\ m.results.duplicate_connections = 1
        /\ m.results.duplicate_connection_list
              = <<[index |-> 1, connection |-> MetricConnectionPool[2]]>>

\* the indices of the connections that have the endpoint on either side
ConnectionsTouching(doc, endpoint) ==
    {i \in 0..(Len(doc.connections) - 1) :
        endpoint \in UnorderedPair(doc.connections[i + 1])}

\* the endpoint strings of a document
AllEndpoints(doc) ==
    UNION {UnorderedPair(doc.connections[k]) : k \in 1..Len(doc.connections)}

\* C17: check_endpoint_conflicts reports an endpoint if and only if it
\* appears in more than one connection, once, and the index list of a
\* reported endpoint holds exactly the indices of the connections touching
\* it, each once; an endpoint used by a single connection, even on both of
\* its sides, is not reported.
C17_EndpointConflicts ==
    \A m \in MetricResults("endpoint_conflicts") :
        LET reported == FieldsOf(m.results.conflict_endpoints, "endpoint")
        IN  /\ Range(reported)
                = {e \in AllEndpoints(m.doc) : Cardinality(ConnectionsTouching(m.doc, e)) > 1}
            /\ Cardinality(Range(reported)) = Len(reported)
            /\ m.results.endpoint_conflicts = Len(reported)
            /\ \A k \in 1..Len(reported) :
                 LET entry == m.results.conflict_endpoints[k]
                 IN  /\ Range(entry.connection_indices)
                          = ConnectionsTouching(m.doc, entry.endpoint)
                     /\ Increasing(entry.connection_indices)
                     /\ entry.connection_count = Len(entry.connection_indices)

\* the part of C17 about documents without a connection that has one endpoint
\* on both sides
C17_WithoutSelfConnections ==
    \A m \in MetricResults("endpoint_conflicts") :
        (\A k \in 1..Len(m.doc.connections) :
            m.doc.connections[k][1] /= m.doc.connections[k][2])
        => LET reported == FieldsOf(m.results.conflict_endpoints, "endpoint")
           IN  /\ Range(reported)
                   = {e \in AllEndpoints(m.doc) :
                        Cardinality(ConnectionsTouching(m.doc, e)) > 1}
               /\ Cardinality(Range(reported)) = Len(reported)
               /\ \A k \in 1..Len(reported) :
                    LET entry == m.results.conflict_endpoints[k]
                    IN  /\ Range(entry.connection_indices)
                             = ConnectionsTouching(m.doc, entry.endpoint)
                        /\ Increasing(entry.connection_indices)

\* three connections that touch led1.anode were evaluated
C17_ThreeConnections ==
    \E m \in MetricResults("endpoint_conflicts") :
        /\ m.doc.connections = <<MetricConnectionPool[1], MetricConnectionPool[2],
                                 MetricConnectionPool[3]>>
        /\ \E k \in 1..Len(m.results.conflict_endpoints) :
              /\ m.results.conflict_endpoints[k].endpoint = MetricConnectionPool[1][1]
              /\ Len(m.results.conflict_endpoints[k].connection_indices) = 3

\* the components of a document whose id is not the component prefix (the
\* text before the first ".") of any connection endpoint
UnusedDeclared(doc) ==
    SelectSeq(doc.components,
        LAMBDA comp :
            \A k \in 1..Len(doc.connections) : \A j \in 1..2 :
                ~( /\ Contains(doc.connections[k][j], <<".">>)
                   /\ split1(doc.connections[k][j], <<".">>)[1] = comp.id ))

\* C18 as stated: check_unused_components lists exactly the declared
\* components whose id is the component prefix of no endpoint, and
\* unused_components is the number of components listed.
C18_CountsListedComponents ==
    \A m \in MetricResults("unused_components") :
        /\ m.results.unused_component_list = UnusedDeclared(m.doc)
        /\ m.results.unused_components = Len(m.results.unused_component_list)

\* C18: check_unused_components lists exactly the declared components whose
\* id is the component prefix of no endpoint, in document order, and
\* unused_components is the number of distinct ids among the components
\* listed, which is the number of components listed when the declared ids
\* are pairwise distinct.
C18_CountsUnusedIds ==
    \A m \in MetricResults("unused_components") :
        /\ m.results.unused_component_list = UnusedDeclared(m.doc)
        /\ m.results.unused_components
              = Cardinality(Range(FieldsOf(m.results.unused_component_list, "id")))
        /\ Cardinality(Range(FieldsOf(m.doc.components, "id"))) = Len(m.doc.components)
              => m.results.unused_components = Len(m.results.unused_component_list)

\* C18 witness: components led1 and r1 with the single connection
\* [led1.anode, arduino1.pin13] were evaluated: the result is 1, listing r1
C18_Witness ==
    \E m \in MetricResults("unused_components") :
        /\ m.doc.components = <<MetricComponentPool[1], MetricComponentPool[2]>>
        /\ m.doc.connections = <<MetricConnectionPool[3]>>
        /\ m.results.unused_components = 1
        /\ m.results.unused_component_list = <<MetricComponentPool[2]>>

\* a document that declares an unused id twice was evaluated
C18_DuplicateIdEvaluated ==
    \E m \in MetricResults("unused_components") :
        m.results.unused_components < Len(m.results.unused_component_list)

\* the endpoint is a breadboard address
IsBreadboardAddress(endpoint) ==
    split1(endpoint, <<".">>)[1] = s_breadboard

\* the indices of the connections with no endpoint on the breadboard
DirectIndices(doc) ==
    {i \in 0..(Len(doc.connections) - 1) :
        /\ ~IsBreadboardAddress(doc.connections[i + 1][1])
        /\ ~IsBreadboardAddress(doc.connections[i + 1][2])}

\* percentage = 100 * count / total, as an equation between integers
IsPercentageOf(p, count, total) ==
    p.num * total = 100 * count * p.den

TypesOf(doc, other) ==
    {lower(FieldOr(comp, "type", <<>>)) :
        comp \in Range(doc.components) \cup Range(other.components)}

\* the number of components of a lower-cased type
CountOf(doc, type) ==
    Cardinality({k \in 1..Len(doc.components) :
                    lower(FieldOr(doc.components[k], "type", <<>>)) = type})

\* max(0, a - b)
PositivePart(a, b) ==
    IF a > b THEN a - b ELSE 0

\* the sum of f over the set S
RECURSIVE SumOver(_, _)
SumOver(f, S) ==
    IF S = {} THEN 0
    ELSE LET x == CHOOSE y \in S : TRUE
         IN  f[x] + SumOver(f, S \ {x})

\* the <<type, delta>> pairs of a list of the comparison, in order
Deltas(list, field) ==
    [k \in 1..Len(list) |-> <<list[k].type, list[k][field]>>]

\* C20: compare_with_reference counts components per lower-cased type in
\* both documents; per type the unnecessary delta is max(0, generated -
\* reference) and the missing delta is max(0, reference - generated); the
\* totals are the sums of the deltas; a type is listed, once and with its
\* delta, exactly when its delta is positive; swapping the two documents
\* swaps the unnecessary and the missing totals and lists.
C20_CompareWithReference ==
    \A m \in MetricResults("unnecessary_components") :
        LET types == TypesOf(m.doc, m.reference)
            extra == [t \in types |->
                        PositivePart(CountOf(m.doc, t), CountOf(m.reference, t))]
            missing == [t \in types |->
                        PositivePart(CountOf(m.reference, t), CountOf(m.doc, t))]
            unnecessary_list == Deltas(m.results.unnecessary_component_list, "extra_count")
            missing_list == Deltas(m.results.missing_component_list, "missing_count")
            Swapped(r) ==
                /\ r.unnecessary_components = m.results.missing_components
                /\ r.missing_components = m.results.unnecessary_components
                /\ Deltas(r.unnecessary_component_list, "extra_count") = missing_list
                /\ Deltas(r.missing_component_list, "missing_count") = unnecessary_list
        IN  /\ m.results.unnecessary_components = SumOver(extra, types)
            /\ m.results.missing_components = SumOver(missing, types)
            /\ Range(unnecessary_list) = {<<t, extra[t]>> : t \in {u \in types : extra[u] > 0}}
            /\ Range(missing_list) = {<<t, missing[t]>> : t \in {u \in types : missing[u] > 0}}
            /\ Cardinality(Range(unnecessary_list)) = Len(unnecessary_list)
            /\ Cardinality(Range(missing_list)) = Len(missing_list)
            /\ Swapped(compare_with_reference(m.reference, m.doc))

\* C20 witness: a document with the types "led" and "LED" was compared with a
\* reference of one resistor: two unnecessary components of the type "led",
\* one missing resistor
C20_Witness ==
    \E m \in MetricResults("unnecessary_components") :
        /\ m.doc.components = <<CompareComponentPool[1], CompareComponentPool[2]>>
        /\ m.reference.components = <<CompareComponentPool[3]>>
        /\ Deltas(m.results.unnecessary_component_list, "extra_count") = <<<<s_led, 2>>>>
        /\ Deltas(m.results.missing_component_list, "missing_count") = <<<<s_resistor, 1>>>>
        /\ m.results.unnecessary_components = 2
        /\ m.results.missing_components = 1

----------------------------------------------------------------------------
(* The catalog tables under every call                                     *)

CatalogNext ==
    \/ ValidateShdfDocument
    \/ \E mode \in Modes : ConvertStandardToWokwi(mode)
    \/ \E mode \in Modes : ConvertWokwiToStandard(mode)
    \/ \E mode \in Modes : ConvertConnectionPoint(mode)
    \/ ConvertToWokwiPoint
    \/ ValidateBreadboardPositions
    \/ WokwiToShdfPin
    \/ ShdfToWokwiPin
    \/ \E mode \in Modes : EvaluateHardwareDesign(mode)

\* all callers: documents to validate and convert, single endpoints and
\* pins, resistor values, documents to evaluate
SpecCatalog ==
    (Init \/ PointInit \/ ValueInit \/ MetricsInit) /\ [][CatalogNext]_vars

\* the seven tables, in the order of tables, as
\* update_type_mappings_from_module_info and
\* update_pin_mappings_from_module_info build them from module_info.json
BuiltCatalog ==
    LET type_info == type_load_module_info(ModuleInfo)
        pin_info == pin_load_module_info(ModuleInfo)
    IN  <<BuildTypeMappings(type_info),
          BuildReverseTypeMappings(BuildTypeMappings(type_info)),
          BuildShdfTypeAliases(type_info),
          BuildPinMappings(pin_info),
          BuildReversePinMappings(pin_info),
          BuildPinNameAliases(pin_info),
          BuildComponentTypeAliases(pin_info)>>

----------------------------------------------------------------------------
(* The metrics an evaluation returns                                       *)

----------------------------------------------------------------------------
(* The attribute mismatches an evaluation reports                          *)

\* the attribute of a component under attrs or, without attrs, under
\* properties: {} when the component does not declare it
DeclaredAttr(comp, key) ==
    LET declared == FieldOr(comp, "attrs", FieldOr(comp, "properties", <<>>))
    IN  IF HasKey(declared, key) THEN {Get(declared, key)} ELSE {}

\* the attribute a kind of component is compared by
ComparedAttr(kind) ==
    IF kind = s_resistor THEN "value" ELSE "color"

\* a component is of a kind when its lower-cased type contains the kind
IsOfKind(comp, kind) ==
    Contains(lower(FieldOr(comp, "type", <<>>)), kind)

\* a value without its unit, in lower case and without outer blanks; a colour
\* in lower case and without outer blanks
NormalizedAttr(kind, text) ==
    IF kind = s_resistor
    THEN strip(replace(replace(replace(lower(text), s_ohm, <<>>), <<"omega">>, <<>>),
                       s_omega, <<>>))
    ELSE strip(lower(text))

\* the project is the traffic_light scenario
IsTrafficLight(project_path) ==
    project_path /= None /\ Contains(project_path, <<"t", "r", "a", "f", "f", "i", "c", "_", "l", "i", "g", "h", "t">>)

\* the kinds of components compared for a project
ComparedKinds(project_path) ==
    IF IsTrafficLight(project_path) THEN {s_resistor, s_led} ELSE {s_resistor}

\* the reference components of a kind compared for the project that declare
\* the attribute of their kind, by position
ReferencePositions(reference, project_path) ==
    {r \in 1..Len(reference.components) :
        \E kind \in ComparedKinds(project_path) :
            /\ IsOfKind(reference.components[r], kind)
            /\ DeclaredAttr(reference.components[r], ComparedAttr(kind)) /= {}}

\* the reference component a generated component is compared with: the last
\* of the reference components above that has its id
ReferenceOf(comp, reference, project_path) ==
    LET same_id == {r \in ReferencePositions(reference, project_path) :
                        reference.components[r].id = comp.id}
    IN  {reference.components[r] : r \in {x \in same_id : \A y \in same_id : y <= x}}

\* the mismatch of a generated component of a kind with its reference
\* component, if there is one: both are of the kind and the normalized
\* attributes differ; a generated component that does not declare the
\* attribute has the empty value
MismatchOf(comp, kind, reference, project_path) ==
    LET generated_values ==
            IF DeclaredAttr(comp, ComparedAttr(kind)) = {} THEN {<<>>}
            ELSE DeclaredAttr(comp, ComparedAttr(kind))
        reference_values ==
            UNION {DeclaredAttr(rc, ComparedAttr(kind)) :
                    rc \in {x \in ReferenceOf(comp, reference, project_path) :
                                IsOfKind(comp, kind) /\ IsOfKind(x, kind)}}
    IN  {[component_id |-> comp.id, component_type |-> kind,
          attribute |-> ComparedAttr(kind),
          generated_value |-> pair[1], reference_value |-> pair[2]] :
            pair \in {p \in generated_values \X reference_values :
                        NormalizedAttr(kind, p[1]) /= NormalizedAttr(kind, p[2])}}

\* the mismatches of a generated component
MismatchesOf(comp, reference, project_path) ==
    UNION {MismatchOf(comp, kind, reference, project_path) :
            kind \in ComparedKinds(project_path)}

\* C22: check_component_attrs reports a mismatch, with both the generated
\* and the reference value, for exactly these components: each resistor
\* whose normalized value differs from the reference resistor's normalized
\* value, and, only when the project is the traffic_light scenario, each LED
\* whose normalized colour differs from the reference LED's; no other
\* component type or attribute is ever reported, and incorrect_attrs equals
\* the number of entries reported.  The reference component of a generated
\* component is the one with its id; the entries come in the order of the
\* generated components.
C22_AttributeMismatches ==
    \A m \in MetricResults("component_attrs") :
        LET reported == m.results.incorrect_attrs_list
            mismatching ==
                {k \in 1..Len(m.doc.components) :
                    MismatchesOf(m.doc.components[k], m.reference, m.project_path) /= {}}
            Position(j) ==
                CHOOSE k \in mismatching : Cardinality({x \in mismatching : x < k}) = j - 1
        IN  /\ m.results.incorrect_attrs = Len(reported)
            /\ Len(reported) = Cardinality(mismatching)
            /\ \A j \in 1..Len(reported) :
                    /\ MismatchesOf(m.doc.components[Position(j)], m.reference,
                                    m.project_path) = {reported[j]}
                    /\ \/ /\ reported[j].attribute = "value"
                          /\ reported[j].component_type = s_resistor
                       \/ /\ reported[j].attribute = "color"
                          /\ reported[j].component_type = s_led
                          /\ IsTrafficLight(m.project_path)

\* C22 witness: for the traffic_light project a document with a resistor of
\* 330 and a green LED was compared with a reference with a resistor of
\* 220 ohm and a red LED: both are reported
C22_Witness ==
    \E m \in MetricResults("component_attrs") :
        /\ IsTrafficLight(m.project_path)
        /\ Len(m.doc.components) = 2
        /\ m.results.incorrect_attrs = 2
        /\ m.results.incorrect_attrs_list[1].generated_value = <<"3", "3", "0">>
        /\ m.results.incorrect_attrs_list[1].reference_value = <<"2", "2", "0", " ", "o", "h", "m">>
        /\ m.results.incorrect_attrs_list[2].generated_value = <<" ", "G", "r", "e", "e", "n">>
        /\ m.results.incorrect_attrs_list[2].reference_value = <<"R", "E", "D", " ">>

----------------------------------------------------------------------------
(* Component ids through the converters                                    *)

\* the prefix of an endpoint before a separator, for the endpoints that are
\* not breadboard addresses and hold the separator
EndpointIds(connections, separator) ==
    {split1(e, separator)[1] :
        e \in {x \in UNION {{connections[k][1], connections[k][2]} :
                                k \in 1..Len(connections)} :
                    ~Contains(x, s_breadboard) /\ Contains(x, separator)}}

\* C23: component ids are the same in both formats:
\* convert_standard_to_wokwi and convert_wokwi_to_standard emit every
\* component with the id it has in the input, and every converted
\* component-pin endpoint keeps the component-id prefix it has in the input.
C23_IdsPreserved ==
    /\ \A i \in CallsOf("convert_standard_to_wokwi") :
            ~calls[i].raised =>
                /\ \A p \in 1..Len(calls[i].ret.parts) :
                        \E c \in 1..Len(calls[i].arg.components) :
                            calls[i].arg.components[c].id = calls[i].ret.parts[p].id
                /\ EndpointIds(calls[i].ret.connections, <<":">>)
                        \subseteq EndpointIds(calls[i].arg.connections, <<".">>)
    /\ \A i \in CallsOf("convert_wokwi_to_standard") :
            ~calls[i].raised =>
                /\ \A c \in 1..Len(calls[i].ret.components) :
                        \E p \in 1..Len(calls[i].arg.parts) :
                            calls[i].arg.parts[p].id = calls[i].ret.components[c].id
                /\ EndpointIds(calls[i].ret.connections, <<".">>)
                        \subseteq EndpointIds(calls[i].arg.connections, <<":">>)

----------------------------------------------------------------------------
(* Lookups under other catalogs                                            *)

\* module_info.json holds one of several catalogs: the catalog above, an LED
\* with a second type that lists "led" as an alias (after it and before it),
\* a type with the pins A and a, one with the pins 1 and pin1, one whose
\* second pin lists the derived name of the first as an alias; a type is
\* resolved by shdf_alias_check or a pin by shdf_to_wokwi_pin
SpecAnyCatalog ==
    /\ LET Pin(name, aliases) ==
               [pin_name |-> name, description |-> <<"d">>, pin_aliases |-> aliases]
           RgbLedInfo ==
               [wokwi_type |-> <<"w", "o", "k", "w", "i", "-", "r", "g", "b", "-", "l", "e", "d">>, shdf_type |-> <<"R", "G", "B", " ", "L", "E", "D">>,
                shdf_type_aliases |-> <<<<"l", "e", "d">>>>, pins |-> <<Pin(<<"R">>, <<>>)>>]
           SensorInfo ==
               [wokwi_type |-> <<"w", "o", "k", "w", "i", "-", "s", "e", "n", "s", "o", "r">>, shdf_type |-> <<"S", "e", "n", "s", "o", "r">>,
                shdf_type_aliases |-> <<>>,
                pins |-> <<Pin(<<"A">>, <<>>), Pin(<<"a">>, <<>>)>>]
           HeaderInfo ==
               [wokwi_type |-> <<"w", "o", "k", "w", "i", "-", "h", "e", "a", "d", "e", "r">>, shdf_type |-> <<"H", "e", "a", "d", "e", "r">>,
                shdf_type_aliases |-> <<>>,
                pins |-> <<Pin(<<"1">>, <<>>), Pin(<<"p", "i", "n", "1">>, <<>>)>>]
           DiodeInfo ==
               [wokwi_type |-> <<"w", "o", "k", "w", "i", "-", "d", "i", "o", "d", "e">>, shdf_type |-> <<"D", "i", "o", "d", "e">>,
                shdf_type_aliases |-> <<>>,
                pins |-> <<Pin(<<"C">>, <<>>), Pin(<<"A">>, <<<<"c">>>>)>>]
           Catalogs ==
               {ModuleInfo, <<LedInfo, ResistorInfo>>, <<LedInfo, RgbLedInfo>>,
                <<RgbLedInfo, LedInfo>>, <<SensorInfo>>, <<HeaderInfo>>, <<DiodeInfo>>}
           TypeArgs ==
               {[kind |-> "shdf_type", type |-> type] :
                   type \in {s_led, <<"r", "g", "b", " ", "l", "e", "d">>, <<"L", "E", "D">>, s_resistor, <<"r", "e", "s">>, <<"s", "e", "n", "s", "o", "r">>,
                             <<"a", "r", "d", "u", "i", "n", "o", " ", "u", "n", "o">>, <<"f", "o", "o">>}}
           PinArgs ==
               {[kind |-> "shdf_pin", pin |-> pin, type |-> type] :
                   pin \in {<<"a">>, <<"c">>, <<"p", "i", "n", "1">>, <<"r">>, <<"a", "n", "o", "d", "e">>, <<"z", "z">>},
                   type \in {s_led, <<"r", "g", "b", " ", "l", "e", "d">>, <<"s", "e", "n", "s", "o", "r">>, <<"h", "e", "a", "d", "e", "r">>, <<"d", "i", "o", "d", "e">>}}
       IN  /\ \E module_info \in Catalogs : TablesLoaded(module_info)
           /\ calls = <<>>
           /\ standard_diagram = NoDoc
           /\ wokwi_diagram = NoDoc
           /\ metric_diagram = NoDoc
           /\ metric_reference = NoDoc
           /\ metric_project_path = None
           /\ point \in TypeArgs \cup PinArgs
    /\ [][\/ /\ point.kind = "shdf_type"
             /\ Len(calls) < MaxCalls
             /\ calls' = Append(calls,
                    [fn |-> "shdf_alias_check", arg |-> point.type, raised |-> FALSE,
                     ret |-> shdf_alias_check(point.type)])
             /\ UNCHANGED <<tables, metric_diagram, metric_reference,
                            metric_project_path, standard_diagram, wokwi_diagram,
                            point>>
          \/ ShdfToWokwiPin]_vars

\* the canonical neutral types of the loaded catalog
CanonicalTypes ==
    Values(TYPE_MAPPINGS)

\* C24: alias resolution returns a canonical type unchanged: for every
\* catalog (whatever alias lists its entries declare) and every entry's
\* canonical neutral type t, shdf_alias_check(t) = t.
C24_CanonicalTypeUnchanged ==
    \A i \in CallsOf("shdf_alias_check") :
        calls[i].arg \in CanonicalTypes => calls[i].ret = calls[i].arg

\* C29: pin names are unique per type after catalog load, so pins
\* round-trip: for every catalog whose simulator pin names are distinct
\* within a component type, the derived neutral pin names of that type are
\* pairwise distinct and no pin alias shadows another pin's name, hence
\* shdf_to_wokwi_pin(n, type) returns the original simulator pin for the
\* neutral name n derived from it.  (PIN_MAPPINGS holds, per type, the
\* neutral name derived from each simulator pin.)
C29_PinsRoundTrip ==
    /\ \A t \in Keys(PIN_MAPPINGS) :
            \A w1, w2 \in Keys(Get(PIN_MAPPINGS, t)) :
                w1 /= w2 => Get(Get(PIN_MAPPINGS, t), w1) /= Get(Get(PIN_MAPPINGS, t), w2)
    /\ \A i \in CallsOf("shdf_to_wokwi_pin") :
            HasKey(PIN_MAPPINGS, calls[i].type) =>
                \A w \in Keys(Get(PIN_MAPPINGS, calls[i].type)) :
                    Get(Get(PIN_MAPPINGS, calls[i].type), w) = calls[i].pin
                        => (~calls[i].raised /\ calls[i].ret = w)

----------------------------------------------------------------------------
(* The side of a strip cell                                                *)

\* C25: row and side in _convert_to_wokwi_point: for every column number, a
\* strip address with row a, b, c, d or e is translated with side t and one
\* with row f, g, h, i or j with side b; the side depends on the row letter
\* only.
C25_RowDeterminesSide ==
    \A i \in CallsOf("_convert_to_wokwi_point") :
        \A col \in 0..(MaxColumn + 1) :
            /\ \A row \in {"a", "b", "c", "d", "e"} :
                    calls[i].arg = s_breadboard \o <<".">> \o str(col) \o <<row>>
                        => /\ ~calls[i].raised
                           /\ calls[i].ret = s_breadboard \o <<":">> \o str(col)
                                                \o <<"t", ".", row>>
            /\ \A row \in {"f", "g", "h", "i", "j"} :
                    calls[i].arg = s_breadboard \o <<".">> \o str(col) \o <<row>>
                        => /\ ~calls[i].raised
                           /\ calls[i].ret = s_breadboard \o <<":">> \o str(col)
                                                \o <<"b", ".", row>>

\* C25 witness: the cell 5f, in a column of the first ten, was translated
\* to the bottom side
C25_Witness ==
    \E i \in CallsOf("_convert_to_wokwi_point") :
        /\ calls[i].arg = <<"b", "r", "e", "a", "d", "b", "o", "a", "r", "d", ".", "5", "f">>
        /\ ~calls[i].raised
        /\ calls[i].ret = <<"b", "r", "e", "a", "d", "b", "o", "a", "r", "d", ":", "5", "b", ".", "f">>

----------------------------------------------------------------------------
(* The converter's output under the validator's breadboard check           *)

\* the breadboard endpoints of a Wokwi document
WokwiBreadboardEndpoints(doc) ==
    {e \in UNION {{conn[1], conn[2]} : conn \in Range(FieldOr(doc, "connections", <<>>))} :
        Contains(e, s_breadboard)}

\* C26: for every Wokwi document whose breadboard endpoints are valid strip
\* cells or rail positions with column 1..60, the SHDF document returned by
\* convert_wokwi_to_standard in physical mode produces no error in
\* validate_breadboard_positions.
C26_OutputAccepted ==
    \A i \in CallsOf("convert_wokwi_to_standard") :
        ( /\ calls[i].mode = "physical"
          /\ ~calls[i].raised
          /\ WokwiBreadboardEndpoints(calls[i].arg)
                \subseteq WokwiStripCells \cup WokwiRailPositions )
            => /\ validate_breadboard_positions(calls[i].ret).is_valid
               /\ validate_breadboard_positions(calls[i].ret).errors = <<>>

----------------------------------------------------------------------------
(* Validated documents with breadboard addresses, handed to the converter  *)

\* validate_shdf_document and the converters called on documents that use the
\* breadboard notations of validate_breadboard_positions
SpecValidated ==
    /\ LET ComponentPool ==
               <<[id |-> <<"l", "e", "d", "1">>, type |-> s_led],
                 [id |-> <<"r", "1">>, type |-> s_resistor],
                 [id |-> <<"u", "n", "o">>, type |-> <<"A", "r", "d", "u", "i", "n", "o">>],
                 [id |-> <<"r", "1">>, type |-> s_resistor,
                  properties |-> <<<<"value", <<"4", ".", "7", "k">>>>>>],
                 [id |-> <<"m", "y", "l", "e", "d", "7">>, type |-> s_led],
                 [id |-> <<"l", "e", "d", "7">>, type |-> s_led]>>
           ConnectionPool ==
               <<<<<<"b", "r", "e", "a", "d", "b", "o", "a", "r", "d", ".", "1", "0", "a">>, <<"l", "e", "d", "1", ".", "a", "n", "o", "d", "e">>>>,
                 <<<<"b", "r", "e", "a", "d", "b", "o", "a", "r", "d", ".", "p", "i", "n", "3", "0", "t", ".", "c">>, <<"r", "1", ".", "p", "i", "n", "1">>>>,
                 <<<<"b", "r", "e", "a", "d", "b", "o", "a", "r", "d", ".", "b", "n", ".", "1", "8">>, <<"u", "n", "o", ".", "p", "i", "n", "1", "3">>>>,
                 <<<<"l", "e", "d", "1", ".", "a">>, <<"r", "1", ".", "p", "i", "n", "1">>>>,
                 <<<<"b", "r", "e", "a", "d", "b", "o", "a", "r", "d", ".", "6", "1", "f">>, <<"l", "e", "d", "1", ".", "a">>>>,
                 <<<<"m", "y", "l", "e", "d", "7", ".", "a", "n", "o", "d", "e">>, <<"l", "e", "d", "7", ".", "a", "n", "o", "d", "e">>>>>>
       IN  /\ TablesLoaded(ModuleInfo)
           /\ calls = <<>>
           /\ point = NoArg
           /\ metric_diagram = NoDoc
           /\ metric_reference = NoDoc
           /\ metric_project_path = None
           /\ wokwi_diagram = NoDoc
           /\ standard_diagram \in
                {[components |-> cs, connections |-> ks] :
                    cs \in SubSeqsUpTo(ComponentPool, MaxComponents),
                    ks \in SubSeqsUpTo(ConnectionPool, MaxConnections)}
    /\ [][Next]_vars

\* the text after "breadboard:" is "<col><t|b>.<row>" or "<rail>.<col>"
WellFormedAddress(endpoint) ==
    LET body == SubSeq(endpoint, Len(s_breadboard) + 2, Len(endpoint))
        n == Len(body)
    IN  /\ startswith(endpoint, s_breadboard \o <<":">>)
        /\ n >= 4
        /\ \/ /\ body[n] \in RowLetters
              /\ body[n - 1] = "."
              /\ body[n - 2] \in {"t", "b"}
              /\ isdigit(SubSeq(body, 1, n - 3))
           \/ /\ SubSeq(body, 1, 2) \in Rails
              /\ body[3] = "."
              /\ isdigit(SubSeq(body, 4, n))

\* no component of the document has a value property
NoResistorValue(doc) ==
    \A comp \in Range(FieldOr(doc, "components", <<>>)) :
        ~HasKey(FieldOr(comp, "properties", <<>>), "value")

\* C27: for every SHDF document for which validate_shdf_document returns
\* is_valid = true (types written canonically or as aliases, either breadboard
\* notation the validator accepts) and that has no resistor value property,
\* convert_standard_to_wokwi returns a document without raising, and every
\* breadboard endpoint in it is a well-formed simulator address
\* '<id>:<col><t|b>.<row>' or '<id>:<rail>.<col>'.
C27_ValidatedConverts ==
    \A i \in 1..(Len(calls) - 1) :
        ( /\ calls[i].fn = "validate_shdf_document"
          /\ calls[i].is_valid
          /\ NoResistorValue(calls[i].arg)
          /\ calls[i + 1].fn = "convert_standard_to_wokwi" )
            => /\ ~calls[i + 1].raised
               /\ \A e \in WokwiBreadboardEndpoints(calls[i + 1].ret) :
                        WellFormedAddress(e)

----------------------------------------------------------------------------
(* Parts and the endpoints that name them                                  *)

\* the component ids of the document are pairwise distinct
DistinctIds(doc) ==
    \A p, q \in 1..Len(doc.components) :
        p /= q => doc.components[p].id /= doc.components[q].id

\* the positions of the parts whose id is the prefix of a Wokwi endpoint
PartsNamed(wokwi_endpoint, parts) ==
    {p \in 1..Len(parts) : parts[p].id = split1(wokwi_endpoint, <<":">>)[1]}

\* the positions of the components whose id is the prefix of an SHDF endpoint
ComponentsNamed(shdf_endpoint, components) ==
    {c \in 1..Len(components) : components[c].id = split1(shdf_endpoint, <<".">>)[1]}

\* C28: convert_standard_to_wokwi preserves referential integrity: distinct
\* component ids in the input give distinct part ids in the output, and every
\* component-pin endpoint in the output connections names the id of exactly
\* one output part, the one made from the component the input endpoint named.
\* Stated for the calls that return a part for every component and a
\* connection for every connection, so that positions correspond.
C28_ReferentialIntegrity ==
    \A i \in CallsOf("convert_standard_to_wokwi") :
        ( /\ ~calls[i].raised
          /\ DistinctIds(calls[i].arg)
          /\ Len(calls[i].ret.parts) = Len(calls[i].arg.components)
          /\ Len(calls[i].ret.connections) = Len(calls[i].arg.connections) )
            => /\ \A p, q \in 1..Len(calls[i].ret.parts) :
                    p /= q => calls[i].ret.parts[p].id /= calls[i].ret.parts[q].id
               /\ \A k \in 1..Len(calls[i].arg.connections) : \A j \in {1, 2} :
                    ( /\ ~Contains(calls[i].arg.connections[k][j], s_breadboard)
                      /\ Contains(calls[i].arg.connections[k][j], <<".">>) )
                        => /\ Cardinality(PartsNamed(calls[i].ret.connections[k][j],
                                                     calls[i].ret.parts)) = 1
                           /\ PartsNamed(calls[i].ret.connections[k][j], calls[i].ret.parts)
                                = ComponentsNamed(calls[i].arg.connections[k][j],
                                                  calls[i].arg.components)

----------------------------------------------------------------------------
(* _determine_wire_color on pairs of endpoints                             *)

\* _determine_wire_color(from_point, to_point) called on the endpoints of a
\* connection, as convert_standard_to_wokwi calls it, up to MaxCalls times
SpecWire ==
    /\ LET Endpoints ==
               {<<"u", "n", "o", ".", "p", "i", "n", "5">>, <<"v", "r", "e", "g", ".", "o", "u", "t">>, <<"r", "1", ".", "p", "i", "n", "1">>, <<"u", "n", "o", ".", "p", "i", "n", "1", "3">>, <<"u", "n", "o", ".", "G", "N", "D">>,
                <<"u", "n", "o", ".", "5", "V">>, <<"l", "e", "d", "1", ".", "a", "n", "o", "d", "e">>, <<"l", "e", "d", "1", ".", "A", "n", "o", "d", "e">>, <<"b", "t", "n", "1", ".", "p", "i", "n", "1">>, <<"u", "n", "o", ".", "3", ".", "3", "v">>}
       IN  /\ TablesLoaded(ModuleInfo)
           /\ calls = <<>>
           /\ standard_diagram = NoDoc
           /\ wokwi_diagram = NoDoc
           /\ metric_diagram = NoDoc
           /\ metric_reference = NoDoc
           /\ metric_project_path = None
           /\ point \in {[kind |-> "connection", from_point |-> a, to_point |-> b] :
                            a \in Endpoints, b \in Endpoints}
    /\ [][ /\ point.kind = "connection"
           /\ Len(calls) < MaxCalls
           /\ calls' = Append(calls,
                [fn |-> "_determine_wire_color", from_point |-> point.from_point,
                 to_point |-> point.to_point, raised |-> FALSE,
                 ret |-> _determine_wire_color(point.from_point, point.to_point)])
           /\ UNCHANGED <<tables, metric_diagram, metric_reference, metric_project_path,
                          standard_diagram, wokwi_diagram, point>> ]_vars

\* the colour the rules give before the palette, "" when none applies
RuleColor(from_point, to_point) ==
    LET Mentions(word) ==
            Contains(lower(from_point), word) \/ Contains(lower(to_point), word)
    IN  IF Mentions(s_gnd) THEN "black"
        ELSE IF Mentions(s_5v) \/ Mentions(s_3_3v) THEN "red"
        ELSE IF \/ Contains(from_point, s_anode) \/ Contains(to_point, s_anode)
                \/ Contains(from_point, s_cathode) \/ Contains(to_point, s_cathode)
        THEN "green"
        ELSE ""

\* C30: _determine_wire_color is a pure function of the unordered pair of
\* endpoint strings: the rules apply in fixed precedence (ground -> black,
\* else supply voltage -> red, else polarity pin -> green, else a palette
\* colour chosen by a hash of the pair), the same two endpoints always get the
\* same colour, and swapping the two endpoints does not change the colour.
C30_ColorOfUnorderedPair ==
    \A i \in CallsOf("_determine_wire_color") :
        /\ RuleColor(calls[i].from_point, calls[i].to_point) /= ""
                => calls[i].ret = RuleColor(calls[i].from_point, calls[i].to_point)
        /\ RuleColor(calls[i].from_point, calls[i].to_point) = ""
                => calls[i].ret \in Range(WireColors)
        /\ \A j \in CallsOf("_determine_wire_color") :
                ( /\ calls[j].from_point = calls[i].from_point
                  /\ calls[j].to_point = calls[i].to_point ) => calls[j].ret = calls[i].ret
        /\ calls[i].ret = _determine_wire_color(calls[i].to_point, calls[i].from_point)
====
